---- MODULE Spec2Model ----
(***************************************************************************)
(* Model of app/parser.py (parse_train_list_html): the HTML train-list     *)
(* parser of renfe-navigation.  Strings are TLA+ strings, read character   *)
(* by character with SubSeq; the Python string, regular-expression and     *)
(* float() primitives the parser calls are operators computed the way the  *)
(* library computes them.                                                  *)
(***************************************************************************)
EXTENDS Integers, Sequences, FiniteSets, TLC

(***************************************************************************)
(* Python str / re / float primitives used by the parser.                  *)
(***************************************************************************)

\* s[i-1] of Python: the i-th character as a one-character string.
Char(s, i) == SubSeq(s, i, i)

\* s[i-1:] of Python: the suffix from the i-th character on.
Drop(s, i) == SubSeq(s, i, Len(s))

\* str.isspace for one character.
IsSpace(c) == c \in {" ", "\t", "\n", "\r"}

\* str.isdigit / regex \d for one character.
IsDigit(c) == c \in {"0", "1", "2", "3", "4", "5", "6", "7", "8", "9"}

\* regex \w for one character (the letters the input alphabets use).
IsWord(c) ==
    \/ IsDigit(c)
    \/ c \in {"_", "a", "b", "c", "d", "e", "f", "g", "h", "i", "j", "k", "l", "m",
              "n", "o", "p", "q", "r", "s", "t", "u", "v", "w", "x", "y", "z",
              "A", "B", "C", "D", "E", "F", "G", "H", "I", "J", "K", "L", "M",
              "N", "O", "P", "Q", "R", "S", "T", "U", "V", "W", "X", "Y", "Z"}

\* str.startswith(prefix) at offset i (1-based).
StartsWithAt(s, i, prefix) ==
    /\ i + Len(prefix) - 1 <= Len(s)
    /\ SubSeq(s, i, i + Len(prefix) - 1) = prefix

\* `sub in s` of Python.
Contains(sub, s) == \E i \in 1..(Len(s) + 1) : StartsWithAt(s, i, sub)

\* str.replace(old, new), old non-empty: every non-overlapping occurrence,
\* scanning left to right.
RECURSIVE ReplaceStr(_, _, _)
ReplaceStr(s, old, new) ==
    IF s = "" THEN ""
    ELSE IF StartsWithAt(s, 1, old)
         THEN new \o ReplaceStr(Drop(s, Len(old) + 1), old, new)
         ELSE Char(s, 1) \o ReplaceStr(Drop(s, 2), old, new)

\* str.lstrip / str.rstrip / str.strip.
RECURSIVE LStrip(_)
LStrip(s) ==
    IF s # "" /\ IsSpace(Char(s, 1)) THEN LStrip(Drop(s, 2)) ELSE s

RECURSIVE RStrip(_)
RStrip(s) ==
    IF s # "" /\ IsSpace(Char(s, Len(s))) THEN RStrip(SubSeq(s, 1, Len(s) - 1)) ELSE s

Strip(s) == RStrip(LStrip(s))

\* Length of the longest prefix of s made of characters of the regex class
\* [\d,] (a greedy run anchored at the start of s).
IsPriceChar(c) == IsDigit(c) \/ c = ","

RECURSIVE PriceRunLen(_)
PriceRunLen(s) ==
    IF s # "" /\ IsPriceChar(Char(s, 1)) THEN 1 + PriceRunLen(Drop(s, 2)) ELSE 0

\* str(i) for a natural number.
RECURSIVE Str(_)
Str(n) ==
    LET d == SubSeq("0123456789", (n % 10) + 1, (n % 10) + 1)
    IN  IF n < 10 THEN d ELSE Str(n \div 10) \o d

\* int(s) for a string of decimal digits ("" reads as 0).
RECURSIVE DigitsToNat(_)
DigitsToNat(s) ==
    IF s = "" THEN 0
    ELSE LET c == Char(s, Len(s))
             v == CHOOSE k \in 0..9 : Char("0123456789", k + 1) = c
         IN  10 * DigitsToNat(SubSeq(s, 1, Len(s) - 1)) + v

\* re.search(r"([\d,]+)", s): <<>> when nothing matches (None), else
\* <<group 1>>: the leftmost, longest run of digits and commas.
RECURSIVE ReSearchPrice(_)
ReSearchPrice(s) ==
    IF s = "" THEN <<>>
    ELSE IF IsPriceChar(Char(s, 1))
         THEN <<SubSeq(s, 1, PriceRunLen(s))>>
         ELSE ReSearchPrice(Drop(s, 2))

\* A decimal number num / 10^exp, kept with no trailing zero in the fraction
\* so that equal numbers are equal records.  0.0 is Decimal(0, 0).
RECURSIVE Decimal(_, _)
Decimal(num, exp) ==
    IF exp > 0 /\ num % 10 = 0 THEN Decimal(num \div 10, exp - 1)
    ELSE [num |-> num, exp |-> exp]

Zero == Decimal(0, 0)

\* The number of characters of s that equal c.
RECURSIVE CountChar(_, _)
CountChar(s, c) ==
    IF s = "" THEN 0
    ELSE (IF Char(s, 1) = c THEN 1 ELSE 0) + CountChar(Drop(s, 2), c)

\* float(s) of Python on strings of digits, '.', sign and other text (no
\* exponent, underscore, "inf" or "nan" spelling): <<>> stands for
\* ValueError, <<d>> for the value d.  Surrounding whitespace and one
\* leading sign are accepted; the rest must be digits with at most one '.'
\* and at least one digit.
PyFloat(s) ==
    LET t == Strip(s)
        signed == t # "" /\ Char(t, 1) \in {"-", "+"}
        m == IF signed THEN Drop(t, 2) ELSE t
        dot == CHOOSE k \in 1..(Len(m) + 1) : k = Len(m) + 1 \/ Char(m, k) = "."
        ip == SubSeq(m, 1, dot - 1)
        fp == Drop(m, dot + 1)
        wellFormed ==
            /\ \A k \in 1..Len(m) : IsDigit(Char(m, k)) \/ Char(m, k) = "."
            /\ CountChar(m, ".") <= 1
            /\ \E k \in 1..Len(m) : IsDigit(Char(m, k))
        mag == DigitsToNat(ip \o fp)
    IN  IF ~wellFormed THEN <<>>
        ELSE <<Decimal(IF signed /\ Char(t, 1) = "-" THEN 0 - mag ELSE mag, Len(fp))>>

(***************************************************************************)
(* The parsed document as BeautifulSoup presents it to the parser.         *)
(*                                                                         *)
(* An attribute is <<>> when absent and <<value>> when present.  The text  *)
(* of an element is the sequence of its text nodes in document order.  A   *)
(* candidate element of the document is a record                           *)
(*   tag, class, role, id : its tag and attributes                         *)
(*   imgs     : the alt attributes of its <img> descendants                *)
(*   h5s      : the texts of its <h5 aria-hidden="true"> descendants       *)
(*   numbers  : the texts of its <span class="text-number"> descendants    *)
(*   precios  : the title attributes of its <span class="precio-final">    *)
(*   badges   : the texts of its badge-amarillo-junto / badge-azul-junto   *)
(*              descendants                                                *)
(*   divs     : its <div> descendants that carry a class attribute, each   *)
(*              [class, headers, precio, cod, tp, lis]                     *)
(*   infos    : the texts of its <div class="info-varios"> descendants     *)
(* every sequence in document order.                                       *)
(***************************************************************************)

NoAttr == <<>>
Attr(v) == <<v>>

\* tag.get(name, default).
Get(attr, default) == IF attr = NoAttr THEN default ELSE attr[1]

\* Sequence helpers.
RECURSIVE SelectIdx(_, _)
\* The indices k of seq, ascending, with Test(seq[k]); Test is given as the
\* set of accepted indices.
SelectIdx(n, accepted) ==
    IF n = 0 THEN <<>>
    ELSE IF n \in accepted THEN Append(SelectIdx(n - 1, accepted), n)
         ELSE SelectIdx(n - 1, accepted)

\* "".join(nodes): Tag.get_text().
RECURSIVE GetText(_)
GetText(nodes) ==
    IF nodes = <<>> THEN "" ELSE Head(nodes) \o GetText(Tail(nodes))

\* A variant of GetTextStrip that joins the text nodes as they are.
GetTextNoStrip(nodes) == GetText(nodes)

\* Tag.get_text(strip=True): every text node stripped, the empty ones
\* dropped, the rest joined with "".
RECURSIVE GetTextStrip(_)
GetTextStrip(nodes) ==
    IF nodes = <<>> THEN "" ELSE Strip(Head(nodes)) \o GetTextStrip(Tail(nodes))

\* str.split(): the whitespace-separated tokens of a class attribute.
RECURSIVE TokenLen(_)
TokenLen(s) ==
    IF s # "" /\ ~IsSpace(Char(s, 1)) THEN 1 + TokenLen(Drop(s, 2)) ELSE 0

RECURSIVE SplitWs(_)
SplitWs(s) ==
    LET t == LStrip(s)
        n == TokenLen(t)
    IN  IF t = "" THEN <<>> ELSE <<SubSeq(t, 1, n)>> \o SplitWs(Drop(t, n + 1))

\* BeautifulSoup's match of a class_ string against a class attribute: some
\* token of the attribute equals it.
HasClass(cls, name) ==
    LET tokens == SplitWs(cls)
    IN  \E k \in 1..Len(tokens) : tokens[k] = name

\* BeautifulSoup's match of a class_ function against a class attribute: the
\* function accepts some token, or accepts the tokens joined by one space.
FareCardTest(x) ==
    x # "" /\ Contains("seleccion-resumen-bottom", x) /\ Contains("card", x)

\* " ".join(tokens).
RECURSIVE JoinWs(_)
JoinWs(tokens) ==
    IF tokens = <<>> THEN ""
    ELSE IF Len(tokens) = 1 THEN tokens[1]
         ELSE tokens[1] \o " " \o JoinWs(Tail(tokens))

IsFareCard(cls) ==
    LET tokens == SplitWs(cls)
    IN  \/ \E k \in 1..Len(tokens) : FareCardTest(tokens[k])
        \/ FareCardTest(JoinWs(tokens))

\* A variant of IsTrainRow that does not look at the role attribute.
IsTrainRowAnyRole(el) ==
    /\ el.tag = "div"
    /\ HasClass(el.class, "selectedTren")

\* soup.find_all("div", class_="selectedTren", role="listitem").
IsTrainRow(el) ==
    /\ el.tag = "div"
    /\ HasClass(el.class, "selectedTren")
    /\ el.role = Attr("listitem")

FindTrainRows(elements) ==
    LET idx == SelectIdx(Len(elements), {k \in 1..Len(elements) : IsTrainRow(elements[k])})
    IN  [k \in 1..Len(idx) |-> elements[idx[k]]]

(***************************************************************************)
(* Field extraction, one operator per field of parse_train_list_html.      *)
(* An extraction that can raise returns <<>> for the exception and <<v>>   *)
(* for the value v.                                                        *)
(***************************************************************************)

\* A variant of TrainIdOf that numbers the placeholder from one.
TrainIdOneBased(row, i) ==
    LET train_id_attr == Get(row.id, "")
    IN  IF train_id_attr # "" THEN ReplaceStr(train_id_attr, "tren_", "")
        ELSE "unknown_" \o Str(i + 1)

\* train_id: the id attribute with "tren_" removed, or unknown_<i>.
TrainIdOf(row, i) ==
    LET train_id_attr == Get(row.id, "")
    IN  IF train_id_attr # "" THEN ReplaceStr(train_id_attr, "tren_", "")
        ELSE "unknown_" \o Str(i)

\* re.search(r"Tipo de tren\s+(\w+)", alt): <<>> or <<group 1>>.
RECURSIVE WordRunLen(_)
WordRunLen(s) ==
    IF s # "" /\ IsWord(Char(s, 1)) THEN 1 + WordRunLen(Drop(s, 2)) ELSE 0

RECURSIVE ReSearchTipo(_)
ReSearchTipo(alt) ==
    LET rest == Drop(alt, Len("Tipo de tren") + 1)
        word == LStrip(rest)
    IN  IF alt = "" THEN <<>>
        ELSE IF /\ StartsWithAt(alt, 1, "Tipo de tren")
                /\ Len(word) < Len(rest)
                /\ WordRunLen(word) > 0
             THEN <<SubSeq(word, 1, WordRunLen(word))>>
             ELSE ReSearchTipo(Drop(alt, 2))

\* service_type: from the first <img> whose alt contains "Tipo de tren".
ServiceTypeOf(row) ==
    LET hits == SelectIdx(Len(row.imgs),
                          {k \in 1..Len(row.imgs) :
                              row.imgs[k] # NoAttr /\ Contains("Tipo de tren", row.imgs[k][1])})
        match == IF hits = <<>> THEN <<>> ELSE ReSearchTipo(row.imgs[hits[1]][1])
    IN  IF match = <<>> THEN "Tren" ELSE match[1]

\* departure_time / arrival_time: the first two h5 texts, " h" removed.
DepartureTimeOf(row) ==
    IF Len(row.h5s) >= 2 THEN ReplaceStr(GetTextStrip(row.h5s[1]), " h", "") ELSE ""

ArrivalTimeOf(row) ==
    IF Len(row.h5s) >= 2 THEN ReplaceStr(GetTextStrip(row.h5s[2]), " h", "") ELSE ""

\* duration: the stripped text of the first span.text-number.
DurationOf(row) ==
    IF row.numbers = <<>> THEN "" ELSE GetTextStrip(row.numbers[1])

\* A variant of PriceFromOf that converts the whole title, without the
\* regular expression.
PriceFromWholeTitle(row) ==
    LET title == IF row.precios = <<>> THEN "" ELSE Get(row.precios[1], "")
    IN  IF title = "" THEN <<Zero>>
        ELSE PyFloat(ReplaceStr(title, ",", "."))

\* A variant of PriceFromOf that drops the commas, as for a thousands
\* separator, instead of turning them into dots.
PriceFromCommasDropped(row) ==
    LET title == IF row.precios = <<>> THEN "" ELSE Get(row.precios[1], "")
        match == IF title = "" THEN <<>> ELSE ReSearchPrice(title)
    IN  IF match = <<>> THEN <<Zero>>
        ELSE PyFloat(ReplaceStr(match[1], ",", ""))

\* price_from: float() of the first digit/comma run of the title of the first
\* span.precio-final, commas turned into dots; 0.0 without element, title
\* or match; <<>> when float() raises ValueError.
PriceFromOf(row) ==
    LET title == IF row.precios = <<>> THEN "" ELSE Get(row.precios[1], "")
        match == IF title = "" THEN <<>> ELSE ReSearchPrice(title)
    IN  IF match = <<>> THEN <<Zero>>
        ELSE PyFloat(ReplaceStr(match[1], ",", "."))

\* The stripped texts of a list of elements, the empty ones left out, in
\* the order of the list (the list comprehensions of badges and features).
RECURSIVE NonEmptyTexts(_)
NonEmptyTexts(elems) ==
    IF elems = <<>> THEN <<>>
    ELSE IF GetTextStrip(Head(elems)) # ""
         THEN <<GetTextStrip(Head(elems))>> \o NonEmptyTexts(Tail(elems))
         ELSE NonEmptyTexts(Tail(elems))

BadgesOf(row) == NonEmptyTexts(row.badges)

\* accessible / eco_friendly: phrases in the text of the first div.info-varios.
AccessibleOf(row) ==
    row.infos # <<>> /\ Contains("Plaza H disponible", GetText(row.infos[1]))

\* A variant of EcoFriendlyOf that looks for its phrase only when the
\* accessibility phrase was not found.
EcoFriendlyElse(row) ==
    /\ row.infos # <<>>
    /\ ~Contains("Plaza H disponible", GetText(row.infos[1]))
    /\ Contains("Cero emisiones", GetText(row.infos[1]))

EcoFriendlyOf(row) ==
    row.infos # <<>> /\ Contains("Cero emisiones", GetText(row.infos[1]))

\* re.match(r"^([^\d€]+)", text): <<>> or <<group 1>>, the leading run of
\* characters that are neither a digit nor the euro sign.
RECURSIVE NameRunLen(_)
NameRunLen(s) ==
    IF s # "" /\ ~IsDigit(Char(s, 1)) /\ ~StartsWithAt(s, 1, "€")
    THEN 1 + NameRunLen(Drop(s, 2)) ELSE 0

ReMatchName(text) ==
    IF NameRunLen(text) = 0 THEN <<>> ELSE <<SubSeq(text, 1, NameRunLen(text))>>

\* fare_name: the text of the first span of the first div.card-header whose
\* style contains "padding-right", else the header text before the price,
\* else "Desconocida".
FareNameOf(fare_card) ==
    LET header == fare_card.headers[1]
        hits == SelectIdx(Len(header.spans),
                          {k \in 1..Len(header.spans) :
                              /\ header.spans[k].style # NoAttr
                              /\ header.spans[k].style[1] # ""
                              /\ Contains("padding-right", header.spans[k].style[1])})
        match == ReMatchName(GetTextStrip(header.nodes))
    IN  IF fare_card.headers = <<>> THEN "Desconocida"
        ELSE IF hits # <<>> THEN GetTextStrip(header.spans[hits[1]].nodes)
        ELSE IF match # <<>> THEN Strip(match[1])
        ELSE "Desconocida"

\* fare_price: float() of data-precio-tarifa with commas turned into dots;
\* 0.0 when the attribute is absent or empty; <<>> when float() raises.
FarePriceOf(fare_card) ==
    IF Get(fare_card.precio, "") = "" THEN <<Zero>>
    ELSE PyFloat(ReplaceStr(fare_card.precio[1], ",", "."))

\* One pass of the fare loop body for card j (zero-based): <<>> when the body
\* raises (the card is skipped with a warning), else <<FareOption>>.  The
\* field card records the position of the card among the row's fare cards;
\* it is history kept for the ordering claims, not a field of FareOption.
FareOf(fare_card, j) ==
    LET fare_price == FarePriceOf(fare_card)
    IN  IF fare_price = <<>> THEN <<>>
        ELSE <<[name |-> FareNameOf(fare_card),
                price |-> fare_price[1],
                currency |-> "EUR",
                code |-> fare_card.cod,
                tp_enlace |-> fare_card.tp,
                features |-> NonEmptyTexts(fare_card.lis),
                card |-> j]>>

\* row.find_all("div", class_=lambda ...): the fare cards of a row.
FareCardsOf(row) ==
    LET idx == SelectIdx(Len(row.divs), {k \in 1..Len(row.divs) : IsFareCard(row.divs[k].class)})
    IN  [k \in 1..Len(idx) |-> row.divs[idx[k]]]

\* fares.append(...): where a new fare goes in the list.
AppendFare(fares, fare) == Append(fares, fare)

\* The fare loop over cards j = n .. Len(fare_cards) - 1 (zero-based): the
\* fares appended and the warnings logged, in order.
RECURSIVE FareLoop(_, _, _)
FareLoop(fare_cards, n, acc) ==
    IF n > Len(fare_cards) THEN acc
    ELSE LET f == FareOf(fare_cards[n], n - 1)
         IN  FareLoop(fare_cards, n + 1,
                      IF f = <<>>
                      THEN [acc EXCEPT !.log = Append(@, "warning")]
                      ELSE [acc EXCEPT !.fares = AppendFare(@, f[1])])

FaresOf(row) == FareLoop(FareCardsOf(row), 1, [fares |-> <<>>, log |-> <<>>])

(***************************************************************************)
(* The documents the parser is run on.                                     *)
(***************************************************************************)

\* At most MaxElements candidate elements in a document of the catalogue.
MaxElements == 3
\* Price attributes (title, data-precio-tarifa) of at most MaxLen characters.
MaxLen == 3
\* Text nodes of at most MaxTextLen characters, at most MaxNodes per element.
MaxTextLen == 2
MaxNodes == 2

\* The characters price attributes are made of: digits, the comma and dot
\* separators, a sign and a letter.
PriceChars == {"1", "5", ",", ".", "-", "x"}

\* The characters badge and feature texts are made of.
TextChars == {" ", "a"}

RECURSIVE StringsOfLen(_, _)
StringsOfLen(chars, n) ==
    IF n = 0 THEN {""}
    ELSE {c \o t : c \in chars, t \in StringsOfLen(chars, n - 1)}

Strings(chars, n) == UNION {StringsOfLen(chars, k) : k \in 0..n}

SeqsUpTo(S, n) == UNION {[1..k -> S] : k \in 0..n}

\* A fare card as the results page renders it.
Header(name, price) ==
    [spans |-> <<[style |-> Attr("padding-right: 10px"), nodes |-> <<name>>],
                 [style |-> NoAttr, nodes |-> <<price>>]>>,
     nodes |-> <<" ", name, " ", price, " ">>]

Card(name, precio, cod) ==
    [class |-> "seleccion-resumen-bottom card bg-light",
     headers |-> <<Header(name, precio \o " €")>>,
     precio |-> Attr(precio),
     cod |-> Attr(cod),
     tp |-> NoAttr,
     lis |-> << <<"Cambios">>, <<" ">>, <<" Equipaje de mano ">> >>]

\* A train row as the results page renders it.
BaseRow ==
    [tag |-> "div",
     class |-> "row selectedTren",
     role |-> Attr("listitem"),
     id |-> Attr("tren_i_1"),
     imgs |-> <<Attr("Logo"), Attr("Imagen Tipo de tren AVE")>>,
     h5s |-> << <<"06:24 h">>, <<"08:49 h">> >>,
     numbers |-> << <<" 2 horas 25 minutos ">> >>,
     precios |-> <<Attr("Precio desde 32,50")>>,
     badges |-> << <<"Precio mas bajo">>, <<"  ">>, <<" Mas rapido ">> >>,
     divs |-> <<[class |-> "row", headers |-> <<>>, precio |-> NoAttr, cod |-> NoAttr,
                 tp |-> NoAttr, lis |-> <<>>],
                Card("Basico", "32,50", "B1"),
                Card("Elige", "49,00", "E1")>>,
     infos |-> << <<"Plaza H disponible", " ", "Cero emisiones">> >>]

\* The rows and non-rows the catalogue documents are built from.
RowTwo ==
    [BaseRow EXCEPT !.id = Attr("tren_i_2"),
                    !.h5s = << <<"07:00 h">>, <<"09:45 h">> >>,
                    !.precios = <<Attr("Precio desde 21,00")>>,
                    !.badges = <<>>,
                    !.divs = <<Card("Basico", "21,00", "B1")>>,
                    !.infos = <<>>]

RowSameId == [RowTwo EXCEPT !.id = Attr("i_1")]

RowNoId == [RowTwo EXCEPT !.id = NoAttr]

RowPlaceholderId == [BaseRow EXCEPT !.id = Attr("tren_unknown_1")]

RowBadPrice == [RowTwo EXCEPT !.id = Attr("tren_i_3"), !.precios = <<Attr("Precio desde 1,234,56")>>]

RowBadFare ==
    [BaseRow EXCEPT !.id = Attr("tren_i_4"),
                    !.divs = <<Card("Basico", "32,50", "B1"),
                               Card("Elige", "consultar", "E1"),
                               Card("Premium", "60,10", "P1")>>]

NotRowNoRole == [BaseRow EXCEPT !.role = NoAttr]

NotRowSpan == [BaseRow EXCEPT !.tag = "span"]

ElementCatalogue ==
    {BaseRow, RowTwo, RowSameId, RowNoId, RowPlaceholderId, RowBadPrice, RowBadFare,
     NotRowNoRole, NotRowSpan}

\* Documents of catalogue elements in every order.
CatalogueDocs ==
    {[parseable |-> TRUE, elements |-> els] : els \in SeqsUpTo(ElementCatalogue, MaxElements)}

\* Documents whose first row carries an arbitrary price title, or an arbitrary
\* data-precio-tarifa on its second fare card, followed by an ordinary row.
PriceDocs ==
    {[parseable |-> TRUE, elements |-> <<[BaseRow EXCEPT !.precios = <<Attr(t)>>], RowTwo>>] :
        t \in Strings(PriceChars, MaxLen)}
    \cup
    {[parseable |-> TRUE,
      elements |-> <<[BaseRow EXCEPT !.divs[3].precio = Attr(t)], RowTwo>>] :
        t \in Strings(PriceChars, MaxLen)}

\* Documents whose row carries one badge, or one feature, of arbitrary text
\* nodes.
ElementTexts == SeqsUpTo(Strings(TextChars, MaxTextLen), MaxNodes)

TextDocs ==
    {[parseable |-> TRUE, elements |-> <<[BaseRow EXCEPT !.badges = <<nodes>>]>>] :
        nodes \in ElementTexts}
    \cup
    {[parseable |-> TRUE, elements |-> <<[BaseRow EXCEPT !.divs[2].lis = <<nodes>>]>>] :
        nodes \in ElementTexts}

\* The class attributes a div inside a row may carry: the page's fare-card
\* classes in either order, each marker alone, and classes that only contain
\* the markers inside longer tokens.
DivClasses ==
    {"seleccion-resumen-bottom card", "card bg-light seleccion-resumen-bottom",
     "seleccion-resumen-bottom", "card", "row",
     "seleccion-resumen-bottom-x discard", "seleccion-resumen-bottom-card",
     "xseleccion-resumen-bottom card", "seleccion-resumen-bottom cards"}

\* Documents whose row holds one ordinary fare card and one div of an
\* arbitrary class that is otherwise built like a fare card.
ClassDocs ==
    {[parseable |-> TRUE,
      elements |-> <<[RowTwo EXCEPT !.divs = <<Card("Basico", "21,00", "B1"),
                                               [Card("Elige", "30,00", "E1") EXCEPT !.class = c]>>]>>] :
        c \in DivClasses}

\* The text nodes a div.info-varios may hold: each phrase alone, both in
\* either order, a phrase split over two nodes, and near misses.
InfoTexts ==
    {<<>>, <<" ">>, <<"Plaza H disponible">>, <<"Cero emisiones">>,
     <<"Plaza H disponible", " ", "Cero emisiones">>,
     <<"Cero emisiones", "Plaza H disponible">>,
     <<" Tren con Plaza H disponible y Cero emisiones ">>,
     <<"Plaza H", " disponible">>, <<"Cero", "emisiones">>,
     <<"plaza h disponible">>, <<"Plaza H no disponible", "Cero emisiones">>}

\* Documents whose row has no div.info-varios, one, or two of them.
InfoDocs ==
    {[parseable |-> TRUE, elements |-> <<[BaseRow EXCEPT !.infos = infos]>>] :
        infos \in {<<>>} \cup {<<t>> : t \in InfoTexts}
                  \cup {<< <<"a">>, t >> : t \in InfoTexts}}

\* The id attributes a row may carry: none, the empty string, the prefix
\* alone or twice, and values with "tren_" at the start, later, or both.
RowIds ==
    {NoAttr, Attr(""), Attr("tren_"), Attr("tren_tren_"), Attr("tren_i_7"),
     Attr("i_7"), Attr("xtren_7"), Attr("tren_a_tren_b"), Attr("Tren_7")}

\* Documents of an ordinary row followed by a row of an arbitrary id.
IdDocs ==
    {[parseable |-> TRUE, elements |-> <<BaseRow, [RowTwo EXCEPT !.id = v]>>] :
        v \in RowIds}

\* The text nodes an h5 with aria-hidden="true" may hold: a time with its
\* unit as the page renders it, with spaces around it, with the unit glued
\* to it or in a node of its own, with the unit inside the text, and none.
TimeTexts ==
    {<<"06:24 h">>, <<" 06:24 h ">>, <<"06:24h">>, <<"06:24 ", "h">>, <<"06:24">>,
     <<"06 h 24 h">>, <<"06:24 hrs">>, <<"h">>, <<>>}

\* Documents whose row has no such h5, one, two or three of them.
TimeDocs ==
    {[parseable |-> TRUE, elements |-> <<[BaseRow EXCEPT !.h5s = h5s]>>] :
        h5s \in {<<>>} \cup {<<t>> : t \in TimeTexts}
                \cup {<<t, <<"08:49 h">> >> : t \in TimeTexts}
                \cup {<< <<"06:24 h">>, t, <<"23:59 h">> >> : t \in TimeTexts}}

\* A document BeautifulSoup cannot build a tree from (the constructor raises).
BrokenDoc == [parseable |-> FALSE, elements |-> <<>>]

Documents ==
    CatalogueDocs \cup PriceDocs \cup TextDocs \cup ClassDocs \cup InfoDocs \cup IdDocs
        \cup TimeDocs \cup {BrokenDoc}

(***************************************************************************)
(* The parse call as a state machine.                                      *)
(*   html_content : the argument: whether BeautifulSoup can build a tree   *)
(*                  from it, and the candidate elements of that tree       *)
(*   pc           : "start" before line 29, "rows" inside the row loop,    *)
(*                  "done" once the function has returned, "raised" if an  *)
(*                  exception left the function                            *)
(*   train_rows   : the result of find_all (line 32)                       *)
(*   i            : the loop index of enumerate(train_rows)                *)
(*   trains       : the list being built, returned at line 186             *)
(*   log          : the levels of the records logged so far, in order      *)
(***************************************************************************)
VARIABLES html_content, pc, train_rows, i, trains, log

parser_vars == <<html_content, pc, train_rows, i, trains, log>>

(***************************************************************************)
(* The station lookup (find_station) as a state machine.                   *)
(*   catalog      : resources/estaciones.json: whether json.load succeeds, *)
(*                  and the entries it yields                              *)
(*   station_name : the argument                                           *)
(*   stations     : the result of load_stations()                          *)
(*   fs_pc        : "idle" outside a call, "start" before line 202,        *)
(*                  "exact" in the first loop, "partial" in the second,    *)
(*                  "done" once a record was returned, "raised" if an      *)
(*                  exception left the function                            *)
(*   fs_k         : how many entries the current loop has passed           *)
(*   found        : <<>> or <<the returned record>>                        *)
(***************************************************************************)
VARIABLES catalog, station_name, stations, fs_pc, fs_k, found

station_vars == <<catalog, station_name, stations, fs_pc, fs_k, found>>

(***************************************************************************)
(* The browser session of a search, and the direct search (search_trains)  *)
(* as a state machine.                                                     *)
(*   browser, context, page : "none" before the object is created, "open"  *)
(*                  once it is, "closed" once its close() has returned     *)
(*   closes       : the close() calls executed so far, by object           *)
(*   archive      : the status codes of the HTML files save_response has   *)
(*                  written during the call, in order                      *)
(*   st_pc        : "idle" outside a call, else the statement the call is  *)
(*                  at, "done" once it returned, "raised" once an          *)
(*                  exception left it                                      *)
(*   date_return  : whether the argument date_return is given              *)
(*   trains_out   : the number of trains of the outbound extraction        *)
(*   trains_ret   : <<>> for None, or <<the number of return trains>>      *)
(*   vuelta_count : how many elements of the results page the locator of   *)
(*                  line 159 matches (0 while the page was not searched)   *)
(*   clicked      : whether the return element was clicked                 *)
(***************************************************************************)
VARIABLES browser, context, page, closes, archive

session_vars == <<browser, context, page, closes, archive>>

VARIABLES st_pc, date_return, trains_out, trains_ret, vuelta_count, clicked

search_vars == <<st_pc, date_return, trains_out, trains_ret, vuelta_count, clicked>>

(***************************************************************************)
(* The homepage flow (search_trains_flow) and its endpoint GET             *)
(* /trains-flow as a state machine, on the session variables above.        *)
(*   fl_pc        : "idle" outside a call, else the statement the call is  *)
(*                  at, "done" once it returned, "raised" once an          *)
(*                  exception left it                                      *)
(*   failed       : whether a statement of the try body (lines 119-466)    *)
(*                  has raised, that is, the except of line 468 was        *)
(*                  entered                                                *)
(*   submitted    : whether a search button was clicked or form.submit()   *)
(*                  was called                                             *)
(*   rescue       : what became of the except branch: "none" while it has  *)
(*                  not run, "no_content" if page.content() raised, else   *)
(*                  the outcome of saving with status 500                  *)
(*   pending      : how the try statement is leaving while finally runs:   *)
(*                  "return" or "raise" ("none" before)                    *)
(*   filepath     : the value returned: <<>> for None or none yet, else    *)
(*                  <<the status code in the file name>>                   *)
(*   response     : what GET /trains-flow answered: "none" yet, "success"  *)
(*                  (message and file path) or "error"                     *)
(***************************************************************************)
VARIABLES fl_pc, failed, submitted, rescue, pending, filepath, response

flow_vars == <<fl_pc, failed, submitted, rescue, pending, filepath, response>>

(***************************************************************************)
(* The archiving of one page (parse_and_save_trains_json) as a state       *)
(* machine.                                                                *)
(*   now          : the wall clock datetime.now() reads, in seconds since  *)
(*                  midnight of 20 October 2025                            *)
(*   ticks        : the seconds that have passed since the call began      *)
(*   status_code, filename_suffix : the arguments                          *)
(*   sv_pc        : "idle" outside a call, "html" before line 125, "parse" *)
(*                  before line 129, "json" before line 134, "done" once   *)
(*                  the call returned, "raised" if an exception left it    *)
(*   html_filename, json_filename : <<>> while the file is not written,    *)
(*                  else <<its name>>                                      *)
(***************************************************************************)
VARIABLES now, ticks, status_code, filename_suffix, sv_pc, html_filename, json_filename

save_vars == <<now, ticks, status_code, filename_suffix, sv_pc, html_filename, json_filename>>

(***************************************************************************)
(* The date picker of the homepage flow (lines 191-396 of                  *)
(* search_trains_flow_service.py) as a state machine.  A month text is     *)
(* modelled by the number of the month it names, 0 for an empty or missing *)
(* title.                                                                  *)
(*   pk_pc        : "idle" outside the block, else the statement it is at, *)
(*                  "done" once the dates are set, "raised" once the       *)
(*                  exception was raised again at line 396                 *)
(*   out_month, ret_month : date_out_obj.month and date_return_obj.month   *)
(*                  (0 with no return date)                                *)
(*   m1           : the month the first panel displays                     *)
(*   panels       : how many month panels the widget has                   *)
(*   steps        : the loop counter of lines 316 and 351                  *)
(*   nexts        : how many times click_next clicked, by leg              *)
(*   day_clicks   : the day clicks performed, in order: the leg, the panel *)
(*                  clicked in and the month that panel displayed          *)
(*   visible      : by leg, the panel the navigation loop found the target *)
(*                  month in (0 if it left without finding it)             *)
(***************************************************************************)
VARIABLES pk_pc, out_month, ret_month, m1, panels, steps, nexts, day_clicks, visible

picker_vars == <<pk_pc, out_month, ret_month, m1, panels, steps, nexts, day_clicks, visible>>

\* The date picker is not in use.
PickerIdle ==
    /\ pk_pc = "idle"
    /\ out_month = 1
    /\ ret_month = 0
    /\ m1 = 1
    /\ panels = 1
    /\ steps = 0
    /\ nexts = [out |-> 0, ret |-> 0]
    /\ day_clicks = <<>>
    /\ visible = [out |-> 0, ret |-> 0]

(***************************************************************************)
(* The archive directory shared by the searches that run on the server's   *)
(* event loop.  A search yields at every await, so the synchronous save    *)
(* calls of different searches interleave.                                 *)
(*   wall         : the wall clock datetime.now() reads, in seconds since  *)
(*                  midnight of 20 October 2025                            *)
(*   elapsed      : the seconds that have passed since the first search    *)
(*                  began                                                  *)
(*   kind         : by search, the endpoint that started it                *)
(*   rq_pc        : by search, the save call it is before: "save" (line    *)
(*                  149 of search_trains_service.py), "html" and "json"    *)
(*                  (lines 125 and 135 of renfe_common.py), or "done"      *)
(*   written      : the writes made so far: the file name and the search   *)
(*                  that opened it with mode "w"                           *)
(***************************************************************************)
VARIABLES wall, elapsed, kind, rq_pc, written

archive_vars == <<wall, elapsed, kind, rq_pc, written>>

\* No search is archiving.
ArchiveIdle ==
    /\ wall = 0
    /\ elapsed = 0
    /\ kind = <<>>
    /\ rq_pc = <<>>
    /\ written = {}

(***************************************************************************)
(* The endpoint GET /trains (get_trains of main.py) as a state machine.    *)
(*   query        : the query string of the request: by parameter name,    *)
(*                  NoAttr if the parameter is absent, else Attr(its text) *)
(*   ep_pc        : "idle" with no request, "validate" while the framework *)
(*                  binds the parameters, "search" before line 74,         *)
(*                  "respond" before line 83, "done" once answered         *)
(*   adults       : the bound value of the parameter adults (0 unbound)    *)
(*   invoked      : how many times search_trains was called                *)
(*   http_status  : the status of the answer, 0 while there is none        *)
(***************************************************************************)
VARIABLES query, ep_pc, adults, invoked, http_status

endpoint_vars == <<query, ep_pc, adults, invoked, http_status>>

\* No request is being served.
EndpointIdle ==
    /\ query = <<>>
    /\ ep_pc = "idle"
    /\ adults = 0
    /\ invoked = 0
    /\ http_status = 0

(***************************************************************************)
(* Several calls of parse_train_list_html under way at once (one per       *)
(* thread or request), as a state machine.  Each call has its own frame;   *)
(* the lists the calls build live on the heap; the module's logger is the  *)
(* one object all calls share.                                             *)
(*   call_html    : by call, the argument html_content                     *)
(*   call_pc      : by call, "start", "rows" or "done", as pc above        *)
(*   call_rows    : by call, the local train_rows                          *)
(*   call_i       : by call, the local i                                   *)
(*   lists        : the list objects on the heap, by reference             *)
(*   call_ret     : by call, <<>> until it returns, then <<the list it     *)
(*                  returned, as it was at the return>>                    *)
(*   emitted      : how many records the calls have handed to the logger   *)
(***************************************************************************)
VARIABLES call_html, call_pc, call_rows, call_i, lists, call_ret, emitted

calls_vars == <<call_html, call_pc, call_rows, call_i, lists, call_ret, emitted>>

\* No concurrent parse calls are under way.
CallsIdle ==
    /\ call_html = <<>>
    /\ call_pc = <<>>
    /\ call_rows = <<>>
    /\ call_i = <<>>
    /\ lists = <<>>
    /\ call_ret = <<>>
    /\ emitted = 0

vars == <<parser_vars, station_vars, session_vars, search_vars, flow_vars, save_vars, picker_vars, archive_vars, endpoint_vars, calls_vars>>

\* What the actions of one program leave alone.
beyond_parser == <<station_vars, session_vars, search_vars, flow_vars, save_vars, picker_vars, archive_vars, endpoint_vars, calls_vars>>

beyond_station == <<parser_vars, session_vars, search_vars, flow_vars, save_vars, picker_vars, archive_vars, endpoint_vars, calls_vars>>

beyond_search == <<parser_vars, station_vars, flow_vars, save_vars, picker_vars, archive_vars, endpoint_vars, calls_vars>>

beyond_flow == <<parser_vars, station_vars, search_vars, save_vars, picker_vars, archive_vars, endpoint_vars, calls_vars>>

beyond_save == <<parser_vars, station_vars, session_vars, search_vars, flow_vars, picker_vars, archive_vars, endpoint_vars, calls_vars>>

beyond_picker == <<parser_vars, station_vars, session_vars, search_vars, flow_vars, save_vars, archive_vars, endpoint_vars, calls_vars>>

beyond_archive == <<parser_vars, station_vars, session_vars, search_vars, flow_vars, save_vars, picker_vars, endpoint_vars, calls_vars>>

beyond_endpoint == <<parser_vars, station_vars, session_vars, search_vars, flow_vars, save_vars, picker_vars, archive_vars, calls_vars>>

beyond_calls == <<parser_vars, station_vars, session_vars, search_vars, flow_vars, save_vars, picker_vars, archive_vars, endpoint_vars>>

\* No page is being archived.
SaveIdle ==
    /\ now = 0
    /\ ticks = 0
    /\ status_code = 200
    /\ filename_suffix = ""
    /\ sv_pc = "idle"
    /\ html_filename = <<>>
    /\ json_filename = <<>>

\* No homepage flow is under way.
FlowIdle ==
    /\ fl_pc = "idle"
    /\ failed = FALSE
    /\ submitted = FALSE
    /\ rescue = "none"
    /\ pending = "none"
    /\ filepath = <<>>
    /\ response = "none"

\* No browser session exists.
SessionIdle ==
    /\ browser = "none"
    /\ context = "none"
    /\ page = "none"
    /\ closes = {}
    /\ archive = <<>>

\* No direct search is under way.
SearchIdle ==
    /\ st_pc = "idle"
    /\ date_return = FALSE
    /\ trains_out = 0
    /\ trains_ret = <<>>
    /\ vuelta_count = 0
    /\ clicked = FALSE

\* No parse call is under way.
ParserIdle ==
    /\ html_content = [parseable |-> FALSE, elements |-> <<>>]
    /\ pc = "idle"
    /\ train_rows = <<>>
    /\ i = 0
    /\ trains = <<>>
    /\ log = <<>>

\* No station lookup is under way.
StationIdle ==
    /\ catalog = [loadable |-> FALSE, entries |-> <<>>]
    /\ station_name = ""
    /\ stations = <<>>
    /\ fs_pc = "idle"
    /\ fs_k = 0
    /\ found = <<>>

\* TrainModel(...) of lines 163-177.  The field row records the index i of
\* the row the train was built from; it is history kept for the ordering
\* claims, not a field of TrainModel.
TrainOf(row, idx, price_from, fares) ==
    [train_id |-> TrainIdOf(row, idx),
     service_type |-> ServiceTypeOf(row),
     departure_time |-> DepartureTimeOf(row),
     arrival_time |-> ArrivalTimeOf(row),
     duration |-> DurationOf(row),
     price_from |-> price_from,
     currency |-> "EUR",
     fares |-> fares,
     badges |-> BadgesOf(row),
     accessible |-> AccessibleOf(row),
     eco_friendly |-> EcoFriendlyOf(row),
     row |-> idx]

\* A variant of AppendTrain that puts the new train first.
PrependTrain(list, train) == <<train>> \o list

\* trains.append(...): where a new train goes in the list.
AppendTrain(list, train) == Append(list, train)

\* A variant of ParseDocument without the outer except: the failure leaves
\* the function.
ParseDocumentUncaught ==
    /\ pc = "start"
    /\ IF html_content.parseable
       THEN /\ train_rows' = FindTrainRows(html_content.elements)
            /\ log' = Append(log, "info")
            /\ pc' = "rows"
       ELSE /\ train_rows' = train_rows
            /\ log' = log
            /\ pc' = "raised"
    /\ UNCHANGED <<html_content, i, trains>>
    /\ UNCHANGED beyond_parser

\* Lines 28-33: build the tree and find the rows.  A failure is caught by the
\* outer except (line 183), logged as an error, and the function returns the
\* list built so far, which is empty.
ParseDocument ==
    /\ pc = "start"
    /\ IF html_content.parseable
       THEN /\ train_rows' = FindTrainRows(html_content.elements)
            /\ log' = Append(log, "info")
            /\ pc' = "rows"
       ELSE /\ train_rows' = train_rows
            /\ log' = Append(log, "error")
            /\ pc' = "done"
    /\ UNCHANGED <<html_content, i, trains>>
    /\ UNCHANGED beyond_parser

\* A variant of ExtractRow without the row-level except: the failure of a
\* row reaches the outer except, which ends the loop.
ExtractRowUncaught ==
    /\ pc = "rows"
    /\ i < Len(train_rows)
    /\ LET row == train_rows[i + 1]
           price_from == PriceFromOf(row)
           extracted == FaresOf(row)
       IN  IF price_from = <<>>
           THEN /\ trains' = trains
                /\ log' = Append(log, "error")
                /\ pc' = "done"
           ELSE /\ trains' = AppendTrain(trains, TrainOf(row, i, price_from[1], extracted.fares))
                /\ log' = log \o extracted.log
                /\ pc' = pc
    /\ i' = i + 1
    /\ UNCHANGED <<html_content, train_rows>>
    /\ UNCHANGED beyond_parser

\* Lines 35-181: one pass of the row loop.  float() on the price raises
\* before the fares are read; the row-level except logs a warning and the
\* loop goes on with the next row.
ExtractRow ==
    /\ pc = "rows"
    /\ i < Len(train_rows)
    /\ LET row == train_rows[i + 1]
           price_from == PriceFromOf(row)
           extracted == FaresOf(row)
       IN  IF price_from = <<>>
           THEN /\ trains' = trains
                /\ log' = Append(log, "warning")
           ELSE /\ trains' = AppendTrain(trains, TrainOf(row, i, price_from[1], extracted.fares))
                /\ log' = log \o extracted.log
    /\ i' = i + 1
    /\ UNCHANGED <<html_content, pc, train_rows>>
    /\ UNCHANGED beyond_parser

\* Line 186: the loop is over, return trains.
Return ==
    /\ pc = "rows"
    /\ i = Len(train_rows)
    /\ pc' = "done"
    /\ UNCHANGED <<html_content, train_rows, i, trains, log>>
    /\ UNCHANGED beyond_parser

Init ==
    /\ html_content \in Documents
    /\ pc = "start"
    /\ train_rows = <<>>
    /\ i = 0
    /\ trains = <<>>
    /\ log = <<>>
    /\ StationIdle
    /\ SessionIdle
    /\ SearchIdle
    /\ FlowIdle
    /\ SaveIdle
    /\ PickerIdle
    /\ ArchiveIdle
    /\ EndpointIdle
    /\ CallsIdle

Next == ParseDocument \/ ExtractRow \/ Return

Spec == Init /\ [][Next]_vars

(***************************************************************************)
(* Properties of the parser.                                               *)
(***************************************************************************)

\* The matched row a returned train was built from, and the fare card a
\* returned fare was built from.
RowOfTrain(train) == train_rows[train.row + 1]
CardOfFare(train, fare) == FareCardsOf(RowOfTrain(train))[fare.card + 1]

Returned == pc = "done"

\* The number of steps the call can still take: the rows left to extract
\* and the return.
StepsLeft ==
    CASE pc = "start" -> Len(html_content.elements) + 2
      [] pc = "rows" -> Len(train_rows) - i + 1
      [] OTHER -> 0

\* C1: parse_train_list_html is total: on every document it ends by
\* returning.  Every step brings the return nearer and leads either to the
\* return or to a point from which the loop goes on or returns, never out
\* of the function through an exception; and a document that cannot be
\* parsed as a tree yields the empty list.
ParseIsTotal ==
    [][/\ StepsLeft' < StepsLeft
       /\ StepsLeft' >= 0
       /\ \/ pc' = "done"
          \/ pc' = "rows" /\ i' <= Len(train_rows')
       /\ pc' = "done" /\ ~html_content'.parseable => trains' = <<>>]_vars

BrokenDocReturnsEmpty ==
    Returned /\ ~html_content.parseable /\ trains = <<>> /\ log = <<"error">>

\* A price run float() accepts once its commas are dots: digits with at most
\* one comma and at least one digit.
IsCommaDecimal(run) ==
    /\ CountChar(run, ",") <= 1
    /\ \E k \in 1..Len(run) : IsDigit(Char(run, k))

\* The title of the first span.precio-final of a row is present and holds no
\* number: no digit/comma run, or a first run that is no comma-decimal.
MalformedPriceTitle(row) ==
    /\ row.precios # <<>>
    /\ Get(row.precios[1], "") # ""
    /\ LET match == ReSearchPrice(row.precios[1][1])
       IN  match = <<>> \/ ~IsCommaDecimal(match[1])

\* C2: every matched row whose price title is malformed still yields its
\* train, with price_from 0.0 and the other fields as extracted.
MalformedPriceKeepsRow ==
    Returned =>
        \A k \in 1..Len(train_rows) :
            MalformedPriceTitle(train_rows[k]) =>
                \E n \in 1..Len(trains) :
                    /\ trains[n].row = k - 1
                    /\ trains[n].price_from = Zero
                    /\ trains[n].train_id = TrainIdOf(train_rows[k], k - 1)
                    /\ trains[n].badges = BadgesOf(train_rows[k])

\* out is src with some elements left out, the rest in the order of src.
RECURSIVE IsSubSeq(_, _)
IsSubSeq(out, src) ==
    IF out = <<>> THEN TRUE
    ELSE IF src = <<>> THEN FALSE
    ELSE IF Head(out) = Head(src) THEN IsSubSeq(Tail(out), Tail(src))
    ELSE IsSubSeq(out, Tail(src))

StrippedTexts(elems) == [k \in 1..Len(elems) |-> GetTextStrip(elems[k])]

\* C3: trains come in the order of their rows, the fares of a train in the
\* order of its fare cards, badges and features in the order of their
\* elements.
OrderPreserved ==
    /\ \A n, m \in 1..Len(trains) : n < m => trains[n].row < trains[m].row
    /\ \A n \in 1..Len(trains) :
        LET train == trains[n]
        IN  /\ \A a, b \in 1..Len(train.fares) :
                    a < b => train.fares[a].card < train.fares[b].card
            /\ IsSubSeq(train.badges, StrippedTexts(RowOfTrain(train).badges))
            /\ \A a \in 1..Len(train.fares) :
                    IsSubSeq(train.fares[a].features,
                             StrippedTexts(CardOfFare(train, train.fares[a]).lis))

SeveralInOrder ==
    /\ Returned
    /\ Len(trains) >= 2
    /\ \E n \in 1..Len(trains) :
        /\ Len(trains[n].fares) >= 2
        /\ Len(trains[n].badges) >= 2
        /\ trains[n].badges[1] # trains[n].badges[2]
        /\ Len(trains[n].fares[1].features) >= 2

\* C4: a row without id attribute gets the id unknown_<i>, i its zero-based
\* position among the matched rows, skipped rows counted.
IdDefault ==
    \A n \in 1..Len(trains) :
        RowOfTrain(trains[n]).id = NoAttr =>
            trains[n].train_id = "unknown_" \o Str(trains[n].row)

\* A row without id is returned after an earlier row was skipped, so that its
\* position among the rows differs from its position in the result.
IdDefaultAfterSkip ==
    /\ Returned
    /\ \E n \in 1..Len(trains) :
        /\ RowOfTrain(trains[n]).id = NoAttr
        /\ trains[n].row # n - 1
        /\ trains[n].row > 0

\* C5: the train_id values of one result are pairwise distinct.
TrainIdsDistinct ==
    Returned =>
        \A n, m \in 1..Len(trains) : n # m => trains[n].train_id # trains[m].train_id

\* A string is blank: empty or made of whitespace only.
IsBlank(text) == \A k \in 1..Len(text) : IsSpace(Char(text, k))

\* C6: no badge and no feature of a returned train is blank.
NonBlankEntries ==
    \A n \in 1..Len(trains) :
        /\ \A b \in 1..Len(trains[n].badges) : ~IsBlank(trains[n].badges[b])
        /\ \A a \in 1..Len(trains[n].fares) :
            \A f \in 1..Len(trains[n].fares[a].features) :
                ~IsBlank(trains[n].fares[a].features[f])

\* A returned train kept a badge and left out a whitespace-only badge element
\* of its row.
BlankElementDropped ==
    /\ Returned
    /\ \E n \in 1..Len(trains) :
        LET row == RowOfTrain(trains[n])
        IN  /\ \E b \in 1..Len(row.badges) :
                   GetText(row.badges[b]) # "" /\ IsBlank(GetText(row.badges[b]))
            /\ trains[n].badges # <<>>
            /\ Len(trains[n].badges) < Len(row.badges)

\* C7: every returned fare has price >= 0.
FarePriceNonNegative ==
    Returned =>
        \A n \in 1..Len(trains) :
            \A a \in 1..Len(trains[n].fares) : trains[n].fares[a].price.num >= 0

\* C8: every returned train has price_from >= 0.
PriceFromNonNegative ==
    \A n \in 1..Len(trains) : trains[n].price_from.num >= 0

\* A train is returned with a positive price_from from a title that holds a
\* minus sign.
SignedTitleReadPositive ==
    /\ Returned
    /\ \E n \in 1..Len(trains) :
        /\ Contains("-", RowOfTrain(trains[n]).precios[1][1])
        /\ trains[n].price_from.num > 0

\* The document was parsed as a tree and none of its elements carries the
\* train-row marker (div, class selectedTren, role listitem).
NoRowMarker ==
    /\ html_content.parseable
    /\ \A k \in 1..Len(html_content.elements) :
        LET el == html_content.elements[k]
        IN  ~(/\ el.tag = "div"
              /\ HasClass(el.class, "selectedTren")
              /\ el.role = Attr("listitem"))

InLog(level) == \E k \in 1..Len(log) : log[k] = level

\* C9 as stated: without a matching row the parser returns the empty list
\* and logs a warning, not an error.
EmptyInputWarns ==
    Returned /\ NoRowMarker => trains = <<>> /\ InLog("warning") /\ ~InLog("error")

\* C9 as amended: without a matching row the parser returns the empty list
\* and logs the row count at info level only, no warning and no error.
EmptyInputInfoOnly ==
    Returned /\ NoRowMarker => trains = <<>> /\ log = <<"info">>

\* The parser returned from a document that has elements, none of them a row.
NonRowsOnlyReturned ==
    Returned /\ NoRowMarker /\ html_content.elements # <<>> /\ log = <<"info">>

\* C10: a row that raises is left out and every other row yields its train;
\* a fare card that raises is left out of its train's fares and every other
\* card of the row yields its fare.
SkipAndContinue ==
    Returned /\ html_content.parseable =>
        /\ \A k \in 1..Len(train_rows) :
            (PriceFromOf(train_rows[k]) # <<>>) <=>
                (\E n \in 1..Len(trains) : trains[n].row = k - 1)
        /\ \A n \in 1..Len(trains) :
            LET fare_cards == FareCardsOf(RowOfTrain(trains[n]))
            IN  \A j \in 1..Len(fare_cards) :
                    (FarePriceOf(fare_cards[j]) # <<>>) <=>
                        (\E a \in 1..Len(trains[n].fares) : trains[n].fares[a].card = j - 1)

\* A row that raises is followed by a row that is returned, and a returned
\* train lost one fare card and kept the cards before and after it.
SkippedRowAndFare ==
    /\ Returned
    /\ \E k \in 1..Len(train_rows) :
        /\ PriceFromOf(train_rows[k]) = <<>>
        /\ \E n \in 1..Len(trains) : trains[n].row > k - 1
    /\ \E n \in 1..Len(trains) :
        LET fare_cards == FareCardsOf(RowOfTrain(trains[n]))
        IN  /\ Len(fare_cards) = 3
            /\ FarePriceOf(fare_cards[2]) = <<>>
            /\ Len(trains[n].fares) = 2

\* The class attribute holds both markers as whole tokens.
HasBothTokens(cls) == HasClass(cls, "seleccion-resumen-bottom") /\ HasClass(cls, "card")

\* C11: a div inside a row is read as a fare card only if its class token
\* list holds both 'seleccion-resumen-bottom' and 'card' as whole tokens:
\* every fare of every returned train comes from such a div.
FareCardsHaveBothTokens ==
    Returned =>
        \A k \in 1..Len(trains) : \A f \in 1..Len(trains[k].fares) :
            HasBothTokens(CardOfFare(trains[k], trains[k].fares[f]).class)

\* The phrase occurs in the text at some offset, character by character.
Occurs(phrase, text) ==
    \E a \in 0..(Len(text) - Len(phrase)) :
        \A j \in 1..Len(phrase) : Char(text, a + j) = Char(phrase, j)

\* The text of the row's misc-info element, if it has one.
HasMiscInfo(row) == Len(row.infos) > 0
MiscInfoText(row) == GetText(row.infos[1])

\* C12: accessible is true iff the row's misc-info text contains 'Plaza H
\* disponible', eco_friendly is true iff it contains 'Cero emisiones', each
\* whatever the other is and wherever the phrases stand; both are false when
\* the row has no misc-info element.
FlagsIndependent ==
    \A k \in 1..Len(trains) :
        LET row == RowOfTrain(trains[k])
        IN  /\ trains[k].accessible
                <=> (HasMiscInfo(row) /\ Occurs("Plaza H disponible", MiscInfoText(row)))
            /\ trains[k].eco_friendly
                <=> (HasMiscInfo(row) /\ Occurs("Cero emisiones", MiscInfoText(row)))
            /\ ~HasMiscInfo(row) => ~trains[k].accessible /\ ~trains[k].eco_friendly

\* A returned train carries both flags, from a text that names the emissions
\* phrase before the accessibility phrase.
BothFlagsEcoFirst ==
    /\ Returned
    /\ \E k \in 1..Len(trains) :
          /\ trains[k].accessible
          /\ trains[k].eco_friendly
          /\ StartsWithAt(MiscInfoText(RowOfTrain(trains[k])), 1, "Cero emisiones")

(***************************************************************************)
(* The station lookup: load_stations and find_station.                     *)
(***************************************************************************)

\* A field of a catalog entry: the key is absent, holds JSON null, or holds
\* a string.
Absent == <<>>
JsonNull == <<"null">>
JsonStr(v) == <<"str", v>>

\* str.upper() on the letters the names are made of.
UpperChar(c) ==
    CASE c = "a" -> "A"
      [] c = "b" -> "B"
      [] OTHER -> c

RECURSIVE Upper(_)
Upper(s) == IF s = "" THEN "" ELSE UpperChar(Char(s, 1)) \o Upper(Drop(s, 2))

\* station.get(key, "").upper(): <<the text>>, or <<>> when the key holds
\* null and .upper() raises AttributeError.
GetUpper(field) ==
    IF field = Absent THEN <<Upper("")>>
    ELSE IF field = JsonNull THEN <<>>
    ELSE <<Upper(field[2])>>

\* The length station_name.upper()[:5] cuts the code to.
CodeLen == 5

\* s[:n] of Python.
Prefix(s, n) == SubSeq(s, 1, IF Len(s) < n THEN Len(s) ELSE n)

\* Lines 222-227: the record returned when no entry matched.
GenericStation(name) ==
    [cdgoEstacion |-> Prefix(Upper(name), CodeLen),
     cdgoAdmon |-> "0071",
     desgEstacion |-> Upper(name),
     clave |-> "0071," \o Prefix(Upper(name), CodeLen) \o ",null"]

\* `station_upper in plano or plano.startswith(station_upper)` of line 215.
PartialMatch(station_upper, plano) ==
    Contains(station_upper, plano) \/ StartsWithAt(plano, 1, station_upper)

\* The field values, names and catalogs the lookup is run on.
MaxStations == 2

PlanoValues == {Absent, JsonNull, JsonStr("Ab"), JsonStr("ABBA"), JsonStr("B")}

CodeValues == {Absent, JsonNull, JsonStr("ab"), JsonStr("b")}

StationEntries ==
    {[desgEstacionPlano |-> n, cdgoEstacion |-> c] : n \in PlanoValues, c \in CodeValues}

StationNames == {"", "ab", "B", "bb", "1", "abbaba"}

Catalogs ==
    {[loadable |-> TRUE, entries |-> es] : es \in SeqsUpTo(StationEntries, MaxStations)}
    \cup {[loadable |-> FALSE, entries |-> <<>>]}

\* Lines 187-197 and 202: load the catalog; a failure to open or decode the
\* file yields the empty list.
LoadStations ==
    /\ fs_pc = "start"
    /\ stations' = IF catalog.loadable THEN catalog.entries ELSE <<>>
    /\ fs_pc' = "exact"
    /\ fs_k' = 0
    /\ UNCHANGED <<catalog, station_name, found>>
    /\ UNCHANGED beyond_station

\* Lines 206-210: one pass of the first loop.  The entry is returned if its
\* display name equals the name, else if its code equals the name.
ExactStep ==
    /\ fs_pc = "exact"
    /\ fs_k < Len(stations)
    /\ LET station == stations[fs_k + 1]
           station_upper == Upper(station_name)
           plano == GetUpper(station.desgEstacionPlano)
           code == GetUpper(station.cdgoEstacion)
       IN  IF plano = <<>>
           THEN fs_pc' = "raised" /\ found' = found
           ELSE IF plano[1] = station_upper
           THEN fs_pc' = "done" /\ found' = <<[idx |-> fs_k + 1, station |-> station]>>
           ELSE IF code = <<>>
           THEN fs_pc' = "raised" /\ found' = found
           ELSE IF code[1] = station_upper
           THEN fs_pc' = "done" /\ found' = <<[idx |-> fs_k + 1, station |-> station]>>
           ELSE fs_pc' = fs_pc /\ found' = found
    /\ fs_k' = fs_k + 1
    /\ UNCHANGED <<catalog, station_name, stations>>
    /\ UNCHANGED beyond_station

\* Line 206 to 213: the first loop is over, the second starts.
ExactOver ==
    /\ fs_pc = "exact"
    /\ fs_k = Len(stations)
    /\ fs_pc' = "partial"
    /\ fs_k' = 0
    /\ UNCHANGED <<catalog, station_name, stations, found>>
    /\ UNCHANGED beyond_station

\* Lines 213-216: one pass of the second loop.
PartialStep ==
    /\ fs_pc = "partial"
    /\ fs_k < Len(stations)
    /\ LET station == stations[fs_k + 1]
           station_upper == Upper(station_name)
           plano == GetUpper(station.desgEstacionPlano)
       IN  IF plano = <<>>
           THEN fs_pc' = "raised" /\ found' = found
           ELSE IF PartialMatch(station_upper, plano[1])
           THEN fs_pc' = "done" /\ found' = <<[idx |-> fs_k + 1, station |-> station]>>
           ELSE fs_pc' = fs_pc /\ found' = found
    /\ fs_k' = fs_k + 1
    /\ UNCHANGED <<catalog, station_name, stations>>
    /\ UNCHANGED beyond_station

\* Lines 218-227: no entry matched; the generic record is returned.
NotFound ==
    /\ fs_pc = "partial"
    /\ fs_k = Len(stations)
    /\ fs_pc' = "done"
    /\ found' = <<[idx |-> 0, station |-> GenericStation(station_name)]>>
    /\ UNCHANGED <<catalog, station_name, stations, fs_k>>
    /\ UNCHANGED beyond_station

StationInit ==
    /\ catalog \in Catalogs
    /\ station_name \in StationNames
    /\ stations = <<>>
    /\ fs_pc = "start"
    /\ fs_k = 0
    /\ found = <<>>
    /\ ParserIdle
    /\ SessionIdle
    /\ SearchIdle
    /\ FlowIdle
    /\ SaveIdle
    /\ PickerIdle
    /\ ArchiveIdle
    /\ EndpointIdle
    /\ CallsIdle

StationNext == LoadStations \/ ExactStep \/ ExactOver \/ PartialStep \/ NotFound

StationSpec == StationInit /\ [][StationNext]_vars

(***************************************************************************)
(* Properties of the station lookup.                                       *)
(***************************************************************************)

\* The field holds a string that is the name up to case.
IsName(field) == Len(field) = 2 /\ Upper(field[2]) = Upper(station_name)

\* The entry's display name, or its code, is the name up to case.
NameMatches(entry) == IsName(entry.desgEstacionPlano)

CodeMatches(entry) == IsName(entry.cdgoEstacion)

\* C13 (first part): if some catalog entry matches the name exactly on the
\* display-name field, the returned entry is one that does, wherever the
\* entries stand in the catalog.
ExactNameBeatsCode ==
    (fs_pc = "done" /\ \E k \in 1..Len(stations) : NameMatches(stations[k]))
        => (found[1].idx > 0 /\ NameMatches(found[1].station))

\* C13 (second part): if some entry matches exactly, by name or by code, the
\* returned entry is one that does, and not one that matches only in part.
ExactBeatsPartial ==
    (fs_pc = "done"
        /\ \E k \in 1..Len(stations) : NameMatches(stations[k]) \/ CodeMatches(stations[k]))
        => (found[1].idx > 0
            /\ (NameMatches(found[1].station) \/ CodeMatches(found[1].station)))

\* C14 (first part): the lookup never raises.
FindStationNeverRaises == fs_pc # "raised"

\* C14 (second part): when no entry matched, the record is built from the
\* name: the code is the uppercased name cut to five characters and the key
\* is "0071,<code>,null".
GenericRecordFromName ==
    (fs_pc = "done" /\ found[1].idx = 0)
        => /\ found[1].station.cdgoEstacion = Prefix(Upper(station_name), 5)
           /\ Len(found[1].station.cdgoEstacion) <= 5
           /\ found[1].station.clave = "0071," \o found[1].station.cdgoEstacion \o ",null"

(***************************************************************************)
(* The direct search: search_trains of search_trains_service.py.  Every    *)
(* awaited call on the browser may raise; nothing in the function catches  *)
(* it outside the return block of lines 156-171.  The exit of              *)
(* async_playwright() stops the driver; it is no call of context.close()   *)
(* or browser.close(), so the states "closed" and the set closes record    *)
(* the explicit calls only.                                                *)
(***************************************************************************)

\* The largest number of trains an extraction yields.
MaxTrains == 2

\* What save_response does with a file: it writes it, it logs the failure of
\* open/write and returns None, or ensure_responses_dir raises before the
\* try of line 98.
SaveOutcomes == {"written", "not_written", "raised"}

\* The archive after save_response(content, code) with that outcome.
Archived(files, code, outcome) ==
    IF outcome = "written" THEN Append(files, code) ELSE files

\* Lines 60-113: find the stations, format the dates, build the form data.
Prepare ==
    /\ st_pc = "start"
    /\ \E ok \in BOOLEAN : st_pc' = IF ok THEN "launch" ELSE "raised"
    /\ UNCHANGED <<date_return, trains_out, trains_ret, vuelta_count, clicked>>
    /\ UNCHANGED session_vars
    /\ UNCHANGED beyond_search

\* Lines 115-116: start Playwright and launch Chromium.
Launch ==
    /\ st_pc = "launch"
    /\ \E ok \in BOOLEAN :
          IF ok THEN browser' = "open" /\ st_pc' = "context"
          ELSE browser' = browser /\ st_pc' = "raised"
    /\ UNCHANGED <<context, page, closes, archive>>
    /\ UNCHANGED <<date_return, trains_out, trains_ret, vuelta_count, clicked>>
    /\ UNCHANGED beyond_search

\* Line 117: browser.new_context.
NewContext ==
    /\ st_pc = "context"
    /\ \E ok \in BOOLEAN :
          IF ok THEN context' = "open" /\ st_pc' = "page"
          ELSE context' = context /\ st_pc' = "raised"
    /\ UNCHANGED <<browser, page, closes, archive>>
    /\ UNCHANGED <<date_return, trains_out, trains_ret, vuelta_count, clicked>>
    /\ UNCHANGED beyond_search

\* Line 118: context.new_page.
NewPage ==
    /\ st_pc = "page"
    /\ \E ok \in BOOLEAN :
          IF ok THEN page' = "open" /\ st_pc' = "goto"
          ELSE page' = page /\ st_pc' = "raised"
    /\ UNCHANGED <<browser, context, closes, archive>>
    /\ UNCHANGED <<date_return, trains_out, trains_ret, vuelta_count, clicked>>
    /\ UNCHANGED beyond_search

\* Line 123: page.goto.
Goto ==
    /\ st_pc = "goto"
    /\ \E ok \in BOOLEAN : st_pc' = IF ok THEN "submit" ELSE "raised"
    /\ UNCHANGED <<date_return, trains_out, trains_ret, vuelta_count, clicked>>
    /\ UNCHANGED session_vars
    /\ UNCHANGED beyond_search

\* Lines 126-142: page.evaluate builds and submits the form.
SubmitForm ==
    /\ st_pc = "submit"
    /\ \E ok \in BOOLEAN : st_pc' = IF ok THEN "wait" ELSE "raised"
    /\ UNCHANGED <<date_return, trains_out, trains_ret, vuelta_count, clicked>>
    /\ UNCHANGED session_vars
    /\ UNCHANGED beyond_search

\* Line 145: wait for the network to be idle, 30 s at most.
WaitIdle ==
    /\ st_pc = "wait"
    /\ \E ok \in BOOLEAN : st_pc' = IF ok THEN "save" ELSE "raised"
    /\ UNCHANGED <<date_return, trains_out, trains_ret, vuelta_count, clicked>>
    /\ UNCHANGED session_vars
    /\ UNCHANGED beyond_search

\* Lines 148-149: page.content() and save_response(content, 200).
SaveResponse ==
    /\ st_pc = "save"
    /\ \E ok \in BOOLEAN, outcome \in SaveOutcomes :
          IF ok /\ outcome # "raised"
          THEN archive' = Archived(archive, 200, outcome) /\ st_pc' = "extract"
          ELSE archive' = archive /\ st_pc' = "raised"
    /\ UNCHANGED <<browser, context, page, closes>>
    /\ UNCHANGED <<date_return, trains_out, trains_ret, vuelta_count, clicked>>
    /\ UNCHANGED beyond_search

\* Lines 152-155 and extract_results (26-37): wait, read the page, parse and
\* archive it with status 200; then the test of line 155.
ExtractOut ==
    /\ st_pc = "extract"
    /\ \E ok \in BOOLEAN, outcome \in SaveOutcomes, n \in 0..MaxTrains :
          IF ok /\ outcome # "raised"
          THEN /\ archive' = Archived(archive, 200, outcome)
               /\ trains_out' = n
               /\ st_pc' = IF date_return /\ n > 0 THEN "return_tab" ELSE "close_context"
          ELSE /\ archive' = archive
               /\ trains_out' = trains_out
               /\ st_pc' = "raised"
    /\ UNCHANGED <<browser, context, page, closes>>
    /\ UNCHANGED <<date_return, trains_ret, vuelta_count, clicked>>
    /\ UNCHANGED beyond_search

\* How many elements the locator of line 159 may match.
MaxTabs == 2

\* Lines 156-171: look for the return tab.  The page has n matching
\* elements.  count() may raise; with n > 0, vuelta_tab.first() calls the
\* property Locator.first as if it were a method, which raises TypeError
\* before any click; either is caught at line 167 and trains_ret is None, as
\* it is with no tab.
FindReturn ==
    /\ st_pc = "return_tab"
    /\ \E n \in 0..MaxTabs :
          /\ vuelta_count' = n
          /\ clicked' = FALSE
          /\ trains_ret' = <<>>
    /\ st_pc' = "close_context"
    /\ UNCHANGED <<date_return, trains_out>>
    /\ UNCHANGED session_vars
    /\ UNCHANGED beyond_search

\* Line 174: context.close().
CloseContext ==
    /\ st_pc = "close_context"
    /\ closes' = closes \cup {"context"}
    /\ \E ok \in BOOLEAN :
          IF ok THEN context' = "closed" /\ st_pc' = "close_browser"
          ELSE context' = context /\ st_pc' = "raised"
    /\ UNCHANGED <<browser, page, archive>>
    /\ UNCHANGED <<date_return, trains_out, trains_ret, vuelta_count, clicked>>
    /\ UNCHANGED beyond_search

\* Lines 175-177: browser.close() and the return.
CloseBrowser ==
    /\ st_pc = "close_browser"
    /\ closes' = closes \cup {"browser"}
    /\ \E ok \in BOOLEAN :
          IF ok THEN browser' = "closed" /\ st_pc' = "done"
          ELSE browser' = browser /\ st_pc' = "raised"
    /\ UNCHANGED <<context, page, archive>>
    /\ UNCHANGED <<date_return, trains_out, trains_ret, vuelta_count, clicked>>
    /\ UNCHANGED beyond_search

SearchInit ==
    /\ st_pc = "start"
    /\ date_return \in BOOLEAN
    /\ trains_out = 0
    /\ trains_ret = <<>>
    /\ vuelta_count = 0
    /\ clicked = FALSE
    /\ SessionIdle
    /\ ParserIdle
    /\ StationIdle
    /\ FlowIdle
    /\ SaveIdle
    /\ PickerIdle
    /\ ArchiveIdle
    /\ EndpointIdle
    /\ CallsIdle

SearchNext ==
    \/ Prepare \/ Launch \/ NewContext \/ NewPage \/ Goto \/ SubmitForm \/ WaitIdle
    \/ SaveResponse \/ ExtractOut \/ FindReturn \/ CloseContext \/ CloseBrowser

SearchSpec == SearchInit /\ [][SearchNext]_vars

(***************************************************************************)
(* Properties of the direct search.                                        *)
(***************************************************************************)

\* C15: whenever the browser and the context were created, context.close()
\* and browser.close() have been executed once search_trains has returned or
\* raised.
SearchReleasesSession ==
    (st_pc \in {"done", "raised"} /\ browser # "none" /\ context # "none")
        => closes = {"context", "browser"}

\* C27: once a round-trip search has returned with a non-empty outbound
\* list from a results page that has at least one return element, the
\* element was clicked and trains_return is a list, not None.
ReturnTrainsExtracted ==
    (st_pc = "done" /\ date_return /\ trains_out > 0 /\ vuelta_count > 0)
        => (clicked /\ trains_ret # <<>>)

(***************************************************************************)
(* The homepage flow: search_trains_flow of search_trains_flow_service.py  *)
(* and get_trains_flow of main.py.  The browser, the context and the page  *)
(* are created before the try of line 119; every later statement up to     *)
(* line 466 is inside it.                                                  *)
(***************************************************************************)

\* Lines 108-114: start Playwright and launch Chromium.
FlowLaunch ==
    /\ fl_pc = "start"
    /\ \E ok \in BOOLEAN :
          IF ok THEN browser' = "open" /\ fl_pc' = "context"
          ELSE browser' = browser /\ fl_pc' = "raised"
    /\ UNCHANGED <<context, page, closes, archive>>
    /\ UNCHANGED <<failed, submitted, rescue, pending, filepath, response>>
    /\ UNCHANGED beyond_flow

\* Line 116: browser.new_context, before the try.
FlowNewContext ==
    /\ fl_pc = "context"
    /\ \E ok \in BOOLEAN :
          IF ok THEN context' = "open" /\ fl_pc' = "page"
          ELSE context' = context /\ fl_pc' = "raised"
    /\ UNCHANGED <<browser, page, closes, archive>>
    /\ UNCHANGED <<failed, submitted, rescue, pending, filepath, response>>
    /\ UNCHANGED beyond_flow

\* Line 117: context.new_page, before the try.
FlowNewPage ==
    /\ fl_pc = "page"
    /\ \E ok \in BOOLEAN :
          IF ok THEN page' = "open" /\ fl_pc' = "goto"
          ELSE page' = page /\ fl_pc' = "raised"
    /\ UNCHANGED <<browser, context, closes, archive>>
    /\ UNCHANGED <<failed, submitted, rescue, pending, filepath, response>>
    /\ UNCHANGED beyond_flow

\* A statement of the try body that either goes on to the statement `next`
\* or raises into the except of line 468.
TryStep(at, next) ==
    /\ fl_pc = at
    /\ \E ok \in BOOLEAN :
          IF ok THEN fl_pc' = next /\ failed' = failed
          ELSE fl_pc' = "rescue" /\ failed' = TRUE
    /\ UNCHANGED <<submitted, rescue, pending, filepath, response>>
    /\ UNCHANGED session_vars
    /\ UNCHANGED beyond_flow

\* Lines 122-127: open the homepage and wait for its widgets.
FlowGoto == TryStep("goto", "cookies")

\* Lines 131-159: accept the cookie banner; every failure is swallowed.
AcceptCookies ==
    /\ fl_pc = "cookies"
    /\ fl_pc' = "stations"
    /\ UNCHANGED <<failed, submitted, rescue, pending, filepath, response>>
    /\ UNCHANGED session_vars
    /\ UNCHANGED beyond_flow

\* Lines 162-176: find the stations and parse the dates.
FlowPrepare == TryStep("stations", "form")

\* Lines 179-187: wait for the form and pick origin and destination.
SelectStations == TryStep("form", "dates")

\* Lines 192-396: drive the date picker; a failure is logged, a screenshot
\* is attempted, and the exception is raised again.
PickDates == TryStep("dates", "passengers")

\* Lines 401-404: fill the passengers field; a failure is swallowed.
FillPassengers ==
    /\ fl_pc = "passengers"
    /\ fl_pc' = "search"
    /\ UNCHANGED <<failed, submitted, rescue, pending, filepath, response>>
    /\ UNCHANGED session_vars
    /\ UNCHANGED beyond_flow

\* How lines 421-450 end: a search button was clicked; no button was
\* clicked and the script found a form and submitted it; no button was
\* clicked and the script found no form, which it passes over in silence;
\* or page.evaluate raised.
SearchOutcomes == {"clicked", "form_submitted", "no_form", "evaluate_raised"}

\* Lines 421-450: click a search button, else submit the form by script.
ClickSearch ==
    /\ fl_pc = "search"
    /\ \E outcome \in SearchOutcomes :
          IF outcome = "evaluate_raised"
          THEN fl_pc' = "rescue" /\ failed' = TRUE /\ submitted' = submitted
          ELSE /\ fl_pc' = "wait"
               /\ failed' = failed
               /\ submitted' = (outcome \in {"clicked", "form_submitted"})
    /\ UNCHANGED <<rescue, pending, filepath, response>>
    /\ UNCHANGED session_vars
    /\ UNCHANGED beyond_flow

\* Line 453: wait for the network to be idle.
FlowWait == TryStep("wait", "save")

\* Lines 456-466: read the page, parse and archive it with status 200, and
\* return the path save_response gave (None if the file could not be
\* written).
FlowArchive ==
    /\ fl_pc = "save"
    /\ \E ok \in BOOLEAN, outcome \in SaveOutcomes :
          IF ok /\ outcome # "raised"
          THEN /\ archive' = Archived(archive, 200, outcome)
               /\ filepath' = IF outcome = "written" THEN <<200>> ELSE <<>>
               /\ pending' = "return"
               /\ fl_pc' = "close_context"
               /\ failed' = failed
          ELSE /\ archive' = archive
               /\ filepath' = filepath
               /\ pending' = pending
               /\ fl_pc' = "rescue"
               /\ failed' = TRUE
    /\ UNCHANGED <<browser, context, page, closes>>
    /\ UNCHANGED <<submitted, rescue, response>>
    /\ UNCHANGED beyond_flow

\* A variant of Rescue that raises again at once, without reading the page.
RescueNoCapture ==
    /\ fl_pc = "rescue"
    /\ pending' = "raise"
    /\ fl_pc' = "close_context"
    /\ UNCHANGED <<failed, submitted, rescue, filepath, response>>
    /\ UNCHANGED session_vars
    /\ UNCHANGED beyond_flow

\* Lines 468-481: the except branch.  It reads the page and archives it
\* with status 500; if that went through it returns the path (line 478),
\* else it raises the caught exception again (line 481).
Rescue ==
    /\ fl_pc = "rescue"
    /\ \E ok \in BOOLEAN, outcome \in SaveOutcomes :
          IF ~ok
          THEN /\ rescue' = "no_content"
               /\ archive' = archive
               /\ filepath' = filepath
               /\ pending' = "raise"
          ELSE /\ rescue' = outcome
               /\ archive' = Archived(archive, 500, outcome)
               /\ filepath' = IF outcome = "written" THEN <<500>> ELSE filepath
               /\ pending' = IF outcome = "raised" THEN "raise" ELSE "return"
    /\ fl_pc' = "close_context"
    /\ UNCHANGED <<browser, context, page, closes>>
    /\ UNCHANGED <<failed, submitted, response>>
    /\ UNCHANGED beyond_flow

\* Line 484, in the finally: context.close().  If it raises, its exception
\* leaves the function and line 485 is not run.
FlowCloseContext ==
    /\ fl_pc = "close_context"
    /\ closes' = closes \cup {"context"}
    /\ \E ok \in BOOLEAN :
          IF ok THEN context' = "closed" /\ fl_pc' = "close_browser"
          ELSE context' = context /\ fl_pc' = "raised"
    /\ UNCHANGED <<browser, page, archive>>
    /\ UNCHANGED <<failed, submitted, rescue, pending, filepath, response>>
    /\ UNCHANGED beyond_flow

\* Line 485, in the finally: browser.close(); then the pending return or
\* raise takes place.
FlowCloseBrowser ==
    /\ fl_pc = "close_browser"
    /\ closes' = closes \cup {"browser"}
    /\ \E ok \in BOOLEAN :
          IF ok
          THEN browser' = "closed" /\ fl_pc' = (IF pending = "return" THEN "done" ELSE "raised")
          ELSE browser' = browser /\ fl_pc' = "raised"
    /\ UNCHANGED <<context, page, archive>>
    /\ UNCHANGED <<failed, submitted, rescue, pending, filepath, response>>
    /\ UNCHANGED beyond_flow

\* main.py lines 136-156: the endpoint answers with the success message and
\* the file path if the flow returned, and raises again if it raised.
Respond ==
    /\ fl_pc \in {"done", "raised"}
    /\ response = "none"
    /\ response' = IF fl_pc = "done" THEN "success" ELSE "error"
    /\ UNCHANGED <<fl_pc, failed, submitted, rescue, pending, filepath>>
    /\ UNCHANGED session_vars
    /\ UNCHANGED beyond_flow

FlowInit ==
    /\ fl_pc = "start"
    /\ failed = FALSE
    /\ submitted = FALSE
    /\ rescue = "none"
    /\ pending = "none"
    /\ filepath = <<>>
    /\ response = "none"
    /\ SessionIdle
    /\ ParserIdle
    /\ StationIdle
    /\ SearchIdle
    /\ SaveIdle
    /\ PickerIdle
    /\ ArchiveIdle
    /\ EndpointIdle
    /\ CallsIdle

FlowNext ==
    \/ FlowLaunch \/ FlowNewContext \/ FlowNewPage \/ FlowGoto \/ AcceptCookies
    \/ FlowPrepare \/ SelectStations \/ PickDates \/ FillPassengers \/ ClickSearch
    \/ FlowWait \/ FlowArchive \/ Rescue \/ FlowCloseContext \/ FlowCloseBrowser
    \/ Respond

FlowSpec == FlowInit /\ [][FlowNext]_vars

(***************************************************************************)
(* Properties of the homepage flow.                                        *)
(***************************************************************************)

\* The call has returned or raised.
FlowExited == fl_pc \in {"done", "raised"}

\* C16: once the browser has been launched, context.close() and
\* browser.close() have both been executed when search_trains_flow has
\* returned or raised.
FlowReleasesSession ==
    (FlowExited /\ browser # "none") => closes = {"context", "browser"}

\* C17: a failure of a step of the flow is surfaced: search_trains_flow
\* raises and GET /trains-flow does not answer with its success message,
\* also when the page was archived with the failure status.
FlowFailureSurfaced ==
    failed => (fl_pc # "done" /\ response # "success")

\* The flow has begun to close its session, or has left.
ClosingOrExited == closes # {} \/ FlowExited

\* C18 as stated: whenever the flow fails after its page was created, be it
\* in a step or while closing the session, the except branch has tried to
\* read and archive the page before the session is closed and before the
\* function exits.
FailureCaptured ==
    (page # "none" /\ (failed \/ fl_pc = "raised") /\ ClosingOrExited)
        => rescue # "none"

\* C18, amended: whenever a step of the flow between the creation of the
\* page and the closing of the session fails, the except branch has tried to
\* read the page and archive it with status 500 before the session is closed
\* and before the function exits; a file it wrote carries status 500.
StepFailureCaptured ==
    (failed /\ ClosingOrExited)
        => /\ page # "none"
           /\ rescue # "none"
           /\ rescue = "written"
                => (Len(archive) > 0 /\ archive[Len(archive)] = 500 /\ filepath = <<500>>)

\* A failed flow archived its page with status 500, then closed the context
\* and the browser, and left.
FailedFlowArchivedThenClosed ==
    /\ failed
    /\ rescue = "written"
    /\ closes = {"context", "browser"}
    /\ FlowExited

\* C19 (first part): a file with status 200 is in the archive only if a
\* search button was clicked or a form was submitted.
OkArchiveOnlyAfterSubmit ==
    (\E k \in 1..Len(archive) : archive[k] = 200) => submitted

\* C19 (second part): every flow that raised, or entered its except branch,
\* has archived a file with status 500 and none with status 200.
FailedFlowArchived500 ==
    (FlowExited /\ (failed \/ fl_pc = "raised"))
        => /\ \E k \in 1..Len(archive) : archive[k] = 500
           /\ \A k \in 1..Len(archive) : archive[k] # 200

(***************************************************************************)
(* The archiving of one page: save_response, parse_and_save_trains_json    *)
(* and save_trains_json of renfe_common.py.                                *)
(***************************************************************************)

\* The seconds the clock may advance during one call.
MaxTicks == 2

\* "%02d" % n.
TwoDigits(n) == IF n < 10 THEN "0" \o Str(n) ELSE Str(n)

\* datetime.now().strftime("%y%m%d_%H%M%S") at t seconds after midnight of
\* 20 October 2025.
Timestamp(t) ==
    LET day == 20 + (t \div 86400)
        sec == t % 86400
    IN  "2510" \o TwoDigits(day) \o "_" \o TwoDigits(sec \div 3600)
            \o TwoDigits((sec % 3600) \div 60) \o TwoDigits(sec % 60)

\* Line 95: the name of the HTML file.
HtmlFilename(t, code, suffix) == Timestamp(t) \o "_" \o Str(code) \o "_" \o suffix

\* Line 169: the name of the JSON file.
JsonFilename(t, code, suffix) ==
    Timestamp(t) \o "_" \o Str(code) \o "_" \o ReplaceStr(suffix, ".log", ".json")

\* The arguments the callers pass: extract_results, the flow on success and
\* the flow's except branch.
SaveCalls ==
    {[status_code |-> 200, filename_suffix |-> "buscarTren.do.log"],
     [status_code |-> 200, filename_suffix |-> "buscarTrenFlow.do.log"],
     [status_code |-> 500, filename_suffix |-> "buscarTrenFlow.do.log"]}

\* The times at which a call may begin: midnight, and the second before a
\* new minute, a new hour and a new day.
StartTimes == {0, 59, 3599, 86399}

\* A second passes while the call is under way.
Tick ==
    /\ sv_pc \in {"html", "parse", "json"}
    /\ ticks < MaxTicks
    /\ now' = now + 1
    /\ ticks' = ticks + 1
    /\ UNCHANGED <<status_code, filename_suffix, sv_pc, html_filename, json_filename>>
    /\ UNCHANGED beyond_save

\* Line 125 and save_response (89-105): name the HTML file after the time
\* read at line 94 and write it.
SaveHtml ==
    /\ sv_pc = "html"
    /\ \E outcome \in SaveOutcomes :
          /\ html_filename' =
                IF outcome = "written"
                THEN <<HtmlFilename(now, status_code, filename_suffix)>>
                ELSE html_filename
          /\ sv_pc' = IF outcome = "raised" THEN "raised" ELSE "parse"
    /\ UNCHANGED <<now, ticks, status_code, filename_suffix, json_filename>>
    /\ UNCHANGED beyond_save

\* Lines 128-131: parse the page.  An exception is caught at line 144 and
\* the call returns without a JSON file.
ParseTrains ==
    /\ sv_pc = "parse"
    /\ \E ok \in BOOLEAN : sv_pc' = IF ok THEN "json" ELSE "done"
    /\ UNCHANGED <<now, ticks, status_code, filename_suffix, html_filename, json_filename>>
    /\ UNCHANGED beyond_save

\* Lines 134-142 and save_trains_json (149-184): name the JSON file after
\* the time read at line 166 and write it; a failure is logged or caught.
SaveJson ==
    /\ sv_pc = "json"
    /\ \E outcome \in SaveOutcomes :
          json_filename' =
              IF outcome = "written"
              THEN <<JsonFilename(now, status_code, filename_suffix)>>
              ELSE json_filename
    /\ sv_pc' = "done"
    /\ UNCHANGED <<now, ticks, status_code, filename_suffix, html_filename>>
    /\ UNCHANGED beyond_save

SaveInit ==
    /\ now \in StartTimes
    /\ ticks = 0
    /\ \E call \in SaveCalls :
          /\ status_code = call.status_code
          /\ filename_suffix = call.filename_suffix
    /\ sv_pc = "html"
    /\ html_filename = <<>>
    /\ json_filename = <<>>
    /\ ParserIdle
    /\ StationIdle
    /\ SessionIdle
    /\ SearchIdle
    /\ FlowIdle
    /\ PickerIdle
    /\ ArchiveIdle
    /\ EndpointIdle
    /\ CallsIdle

SaveNext == Tick \/ SaveHtml \/ ParseTrains \/ SaveJson

SaveSpec == SaveInit /\ [][SaveNext]_vars

(***************************************************************************)
(* Properties of the archiving.                                            *)
(***************************************************************************)

\* C20: when both files of a call are written, the name of the JSON file is
\* the name of the HTML file, timestamp and status code included, with
\* '.json' in the place of '.log', whenever the two writes happen.
JsonNameMatchesHtml ==
    (html_filename # <<>> /\ json_filename # <<>>)
        => /\ SubSeq(json_filename[1], 1, Len(json_filename[1]) - 5)
                = SubSeq(html_filename[1], 1, Len(html_filename[1]) - 4)
           /\ SubSeq(html_filename[1], Len(html_filename[1]) - 3, Len(html_filename[1])) = ".log"
           /\ SubSeq(json_filename[1], Len(json_filename[1]) - 4, Len(json_filename[1])) = ".json"

\* The extension and the status code of the two names agree at all times:
\* only the timestamp may differ.
JsonNameMatchesButTimestamp ==
    (html_filename # <<>> /\ json_filename # <<>>)
        => Drop(json_filename[1], 14) = ReplaceStr(Drop(html_filename[1], 14), ".log", ".json")

(***************************************************************************)
(* Further properties of the parser.                                       *)
(***************************************************************************)

\* C23: every returned train has a non-empty train_id, whatever the id
\* attribute of its row.
TrainIdNonEmpty ==
    \A k \in 1..Len(trains) : trains[k].train_id # ""

\* The value with the prefix taken from its start, if it starts with it.
StripPrefix(value, prefix) ==
    IF StartsWithAt(value, 1, prefix) THEN Drop(value, Len(prefix) + 1) ELSE value

\* C24: for a row with a non-empty id attribute, train_id is the attribute
\* value with 'tren_' taken from its start and the rest left as it is.
TrainIdStripsPrefixOnly ==
    \A k \in 1..Len(trains) :
        LET row == RowOfTrain(trains[k])
        IN  (row.id # NoAttr /\ row.id # Attr(""))
                => trains[k].train_id = StripPrefix(row.id[1], "tren_")

\* The readings of "the text with only a trailing 'h' unit suffix and the
\* surrounding whitespace removed": the unit is an 'h' at the end of the
\* stripped text, or such an 'h' after a space.
EndsWithUnit(t) == Len(t) > 0 /\ Char(t, Len(t)) = "h"

TrailingUnitRemoved(text) ==
    LET t == Strip(text)
        cut == RStrip(SubSeq(t, 1, Len(t) - 1))
    IN  {IF EndsWithUnit(t) THEN cut ELSE t,
         IF EndsWithUnit(t) /\ Len(cut) < Len(t) - 1 THEN cut ELSE t}

\* C25 (first part): with fewer than two h5 elements both times are empty.
TimesEmptyBelowTwo ==
    \A k \in 1..Len(trains) :
        Len(RowOfTrain(trains[k]).h5s) < 2
            => (trains[k].departure_time = "" /\ trains[k].arrival_time = "")

\* C25 (second part): with two or more h5 elements, departure_time is the
\* text of the first and arrival_time the text of the second, each with only
\* a trailing 'h' and the surrounding whitespace removed.
TimesStripTrailingUnit ==
    \A k \in 1..Len(trains) :
        LET row == RowOfTrain(trains[k])
        IN  Len(row.h5s) >= 2
                => /\ trains[k].departure_time \in TrailingUnitRemoved(GetText(row.h5s[1]))
                   /\ trains[k].arrival_time \in TrailingUnitRemoved(GetText(row.h5s[2]))

\* The positions of the first contiguous run of digits and commas of a
\* text that holds one: it starts at the first such character and ends
\* before the next character of another kind.
HasPriceRun(text) == \E k \in 1..Len(text) : IsDigit(Char(text, k)) \/ Char(text, k) = ","

FirstRunStart(text) ==
    CHOOSE a \in 1..Len(text) :
        /\ IsDigit(Char(text, a)) \/ Char(text, a) = ","
        /\ \A k \in 1..(a - 1) : ~(IsDigit(Char(text, k)) \/ Char(text, k) = ",")

FirstRunEnd(text) ==
    CHOOSE b \in FirstRunStart(text)..Len(text) :
        /\ \A k \in FirstRunStart(text)..b : IsDigit(Char(text, k)) \/ Char(text, k) = ","
        /\ b = Len(text) \/ ~(IsDigit(Char(text, b + 1)) \/ Char(text, b + 1) = ",")

FirstPriceRun(text) == SubSeq(text, FirstRunStart(text), FirstRunEnd(text))

\* The decimal a run D,F or D of digits stands for, the comma read as the
\* decimal separator: the digits of D and F as one number, over ten to the
\* number of digits of F.
CommaDecimalValue(run) ==
    LET c == CHOOSE k \in 1..(Len(run) + 1) : k = Len(run) + 1 \/ Char(run, k) = ","
        d == SubSeq(run, 1, c - 1)
        f == Drop(run, c + 1)
    IN  Decimal(DigitsToNat(d \o f), Len(f))

\* The title of the row's first span.precio-final, "" without element or
\* attribute.
PriceTitle(row) ==
    IF Len(row.precios) = 0 \/ row.precios[1] = NoAttr THEN "" ELSE row.precios[1][1]

\* C26: price_from of a returned train is 0.0 when the title is absent or
\* holds no digit or comma, and else the decimal of the first run of digits
\* and commas of the title, the comma read as decimal separator; the price
\* of a returned fare is 0.0 without the attribute and else the decimal of
\* the attribute D,F.
PriceFromFirstRun ==
    \A k \in 1..Len(trains) :
        LET title == PriceTitle(RowOfTrain(trains[k]))
        IN  /\ ~HasPriceRun(title) => trains[k].price_from = Zero
            /\ HasPriceRun(title)
                => /\ IsCommaDecimal(FirstPriceRun(title))
                   /\ trains[k].price_from = CommaDecimalValue(FirstPriceRun(title))
            /\ \A f \in 1..Len(trains[k].fares) :
                  LET attr == CardOfFare(trains[k], trains[k].fares[f]).precio
                  IN  /\ attr = NoAttr => trains[k].fares[f].price = Zero
                      /\ (attr # NoAttr /\ HasPriceRun(attr[1])
                            /\ FirstPriceRun(attr[1]) = attr[1] /\ IsCommaDecimal(attr[1]))
                            => trains[k].fares[f].price = CommaDecimalValue(attr[1])

\* A train is returned with price_from 32.5 from the title 'Precio desde
\* 32,50' and a fare of price 49 from the attribute '49,00'.
PriceRoundTrip ==
    /\ Returned
    /\ \E k \in 1..Len(trains) :
          /\ PriceTitle(RowOfTrain(trains[k])) = "Precio desde 32,50"
          /\ trains[k].price_from = [num |-> 325, exp |-> 1]
          /\ \E f \in 1..Len(trains[k].fares) :
                /\ CardOfFare(trains[k], trains[k].fares[f]).precio = Attr("49,00")
                /\ trains[k].fares[f].price = [num |-> 49, exp |-> 0]

(***************************************************************************)
(* The date picker: lines 191-396 of search_trains_flow_service.py.  The   *)
(* widget shows one or two panels of consecutive months; the flow reads    *)
(* their titles, clicks "next month" until the month of the target date is *)
(* among them, then clicks the day.                                        *)
(***************************************************************************)

\* Lines 223-236: the months the flow knows by name.
spanish_months == 1..12

\* Line 315: the safety limit of the navigation loops.
max_steps == 18

\* The month after m, as the widget's panels follow each other.
MonthAfter(m) == IF m = 12 THEN 1 ELSE m + 1

\* Lines 238-279, get_visible_month_texts: the title of the second panel,
\* 0 (None) if the widget has a single panel.
m2 == IF panels = 2 THEN MonthAfter(m1) ELSE 0

\* Lines 285-297, month_matches: the name of the target month is a
\* substring of the lowercased title.  No month name contains another, so
\* the title matches exactly when it names that month; an empty title
\* matches nothing.
month_matches(target, month_text) == month_text # 0 /\ month_text = target

\* A variant of StepsAfterClick that leaves the counter alone.
StepsKept(n) == n

\* Lines 336 and 359: steps += 1.
StepsAfterClick(n) == n + 1

\* The months a search is made for, and the months the widget opens on.
TargetMonths == {11, 12, 2}

StartMonths == {10, 11}

\* Lines 192-220: open the picker and choose the trip mode; a failure to
\* open raises, a failure to choose the mode is swallowed.
OpenPicker ==
    /\ pk_pc = "open"
    /\ \E ok \in BOOLEAN : pk_pc' = IF ok THEN "nav_out" ELSE "raised"
    /\ steps' = 0
    /\ UNCHANGED <<out_month, ret_month, m1, panels, nexts, day_clicks, visible>>
    /\ UNCHANGED beyond_picker

\* One pass of a navigation loop (lines 319-336, 352-359) for the leg whose
\* target month is `target`.  Reading the titles or clicking may time out
\* and raise.  With the target in neither panel the flow clicks "next
\* month"; the widget moves on by one month, or not at all.  The loop test
\* of the next pass is made at once: the loop is left when steps reaches
\* max_steps.
Navigate(at, leg, target, next) ==
    /\ pk_pc = at
    /\ \E read \in BOOLEAN, click \in BOOLEAN, moved \in BOOLEAN :
          IF ~read
          THEN /\ pk_pc' = "raised"
               /\ UNCHANGED <<m1, steps, nexts, visible>>
          ELSE IF month_matches(target, m1)
          THEN /\ pk_pc' = next
               /\ visible' = [visible EXCEPT ![leg] = 1]
               /\ UNCHANGED <<m1, steps, nexts>>
          ELSE IF m2 # 0 /\ month_matches(target, m2)
          THEN /\ pk_pc' = next
               /\ visible' = [visible EXCEPT ![leg] = 2]
               /\ UNCHANGED <<m1, steps, nexts>>
          ELSE IF ~click
          THEN /\ pk_pc' = "raised"
               /\ UNCHANGED <<m1, steps, nexts, visible>>
          ELSE /\ nexts' = [nexts EXCEPT ![leg] = @ + 1]
               /\ m1' = IF moved THEN MonthAfter(m1) ELSE m1
               /\ steps' = StepsAfterClick(steps)
               /\ pk_pc' = IF StepsAfterClick(steps) < max_steps THEN at ELSE next
               /\ visible' = visible
    /\ UNCHANGED <<out_month, ret_month, panels, day_clicks>>
    /\ UNCHANGED beyond_picker

\* Lines 319-336: navigate to the outbound month.
NavigateOut == Navigate("nav_out", "out", out_month, "day_out")

\* Lines 350-359: navigate to the return month.
NavigateReturn == Navigate("nav_ret", "ret", ret_month, "day_ret")

\* Lines 299-312 and 339-347, 361-369: select_day_in_panel(1, day), then,
\* if that clicked nothing and a second panel exists, select_day_in_panel(2,
\* day).  first_panel and second_panel tell whether the panel has a visible,
\* available day whose text contains the day number.  With no click the
\* flow raises.
SelectDay(at, leg, next) ==
    /\ pk_pc = at
    /\ \E first_panel \in BOOLEAN, second_panel \in BOOLEAN :
          IF first_panel
          THEN /\ day_clicks' = Append(day_clicks, [leg |-> leg, panel |-> 1, month |-> m1])
               /\ pk_pc' = next
          ELSE IF panels = 2 /\ second_panel
          THEN /\ day_clicks' = Append(day_clicks, [leg |-> leg, panel |-> 2, month |-> m2])
               /\ pk_pc' = next
          ELSE /\ day_clicks' = day_clicks
               /\ pk_pc' = "raised"
    /\ steps' = IF next = "nav_ret" /\ pk_pc' = next THEN 0 ELSE steps
    /\ UNCHANGED <<out_month, ret_month, m1, panels, nexts, visible>>
    /\ UNCHANGED beyond_picker

\* Lines 339-351: select the outbound day; with a return date go on to its
\* navigation loop, else to Accept.
SelectOutDay ==
    /\ ret_month # 0
    /\ SelectDay("day_out", "out", "nav_ret")

SelectOutDayOnly ==
    /\ ret_month = 0
    /\ SelectDay("day_out", "out", "accept")

\* Lines 361-369: select the return day.
SelectReturnDay == SelectDay("day_ret", "ret", "accept")

\* Lines 371-383: click Accept; a failure is swallowed.
Accept ==
    /\ pk_pc = "accept"
    /\ pk_pc' = "done"
    /\ UNCHANGED <<out_month, ret_month, m1, panels, steps, nexts, day_clicks, visible>>
    /\ UNCHANGED beyond_picker

PickerInit ==
    /\ pk_pc = "open"
    /\ out_month \in TargetMonths
    /\ ret_month \in {0} \cup TargetMonths
    /\ m1 \in StartMonths
    /\ panels \in {1, 2}
    /\ steps = 0
    /\ nexts = [out |-> 0, ret |-> 0]
    /\ day_clicks = <<>>
    /\ visible = [out |-> 0, ret |-> 0]
    /\ ParserIdle
    /\ StationIdle
    /\ SessionIdle
    /\ SearchIdle
    /\ FlowIdle
    /\ SaveIdle
    /\ ArchiveIdle
    /\ EndpointIdle
    /\ CallsIdle

PickerNext ==
    \/ OpenPicker \/ NavigateOut \/ SelectOutDay \/ SelectOutDayOnly
    \/ NavigateReturn \/ SelectReturnDay \/ Accept

PickerSpec == PickerInit /\ [][PickerNext]_vars

(***************************************************************************)
(* Properties of the date picker.                                          *)
(***************************************************************************)

\* C28: for each of the outbound and the return date the flow clicks "next
\* month" at most max_steps times, and a navigation loop that goes on has
\* fewer than max_steps steps behind it: at max_steps it is left.
NextClicksBounded ==
    /\ nexts.out <= max_steps
    /\ nexts.ret <= max_steps
    /\ pk_pc \in {"nav_out", "nav_ret"} => steps < max_steps

\* Both loops ran to the limit on a widget that never showed either month,
\* and were left.
BothLoopsExhausted ==
    /\ nexts.out = max_steps
    /\ nexts.ret = max_steps
    /\ visible = [out |-> 0, ret |-> 0]
    /\ pk_pc = "day_ret"

\* The target month of a leg.
TargetOf(leg) == IF leg = "out" THEN out_month ELSE ret_month

\* C29: every day click is made in a panel that displays the month of the
\* target date; a target found in the second panel is clicked there; and
\* with a target that never became visible no day is clicked for that leg.
DayClickedInTargetPanel ==
    \A k \in 1..Len(day_clicks) :
        LET c == day_clicks[k]
        IN  /\ c.month = TargetOf(c.leg)
            /\ visible[c.leg] = 2 => c.panel = 2
            /\ visible[c.leg] # 0

(***************************************************************************)
(* Concurrent searches archiving into one directory: save_response and     *)
(* save_trains_json of renfe_common.py as search_trains (lines 149, 152)   *)
(* and search_trains_flow (lines 459-466) call them.                       *)
(***************************************************************************)

\* How many searches are under way at once.
MaxSearches == 2

Searches == 1..MaxSearches

\* The endpoints that start a search.
Kinds == {"trains", "trains-flow"}

\* The suffix a search of that kind passes (the default of save_response
\* and line 36 of search_trains_service.py; line 462 of the flow).
SuffixOf(k) == IF k = "trains" THEN "buscarTren.do.log" ELSE "buscarTrenFlow.do.log"

\* open(filepath, "w") by search s: the write is recorded; a file of that
\* name is truncated, whoever wrote it.
Opened(files, name, s) == files \cup {[name |-> name, by |-> s]}

\* A second passes.
ClockTick ==
    /\ elapsed < MaxTicks
    /\ \E s \in Searches : rq_pc[s] # "done"
    /\ wall' = wall + 1
    /\ elapsed' = elapsed + 1
    /\ UNCHANGED <<kind, rq_pc, written>>
    /\ UNCHANGED beyond_archive

\* search_trains line 149: save_response(response_content, status_code=200)
\* with the default suffix.  A failure to write returns None.
SavePage(s) ==
    /\ rq_pc[s] = "save"
    /\ \E ok \in BOOLEAN :
          written' = IF ok THEN Opened(written, HtmlFilename(wall, 200, SuffixOf(kind[s])), s)
                     ELSE written
    /\ rq_pc' = [rq_pc EXCEPT ![s] = "html"]
    /\ UNCHANGED <<wall, elapsed, kind>>
    /\ UNCHANGED beyond_archive

\* parse_and_save_trains_json line 125: save_response(html, 200, suffix).
SaveResponseOf(s) ==
    /\ rq_pc[s] = "html"
    /\ \E ok \in BOOLEAN :
          written' = IF ok THEN Opened(written, HtmlFilename(wall, 200, SuffixOf(kind[s])), s)
                     ELSE written
    /\ rq_pc' = [rq_pc EXCEPT ![s] = "json"]
    /\ UNCHANGED <<wall, elapsed, kind>>
    /\ UNCHANGED beyond_archive

\* parse_and_save_trains_json lines 135 and 140: save_trains_json(trains,
\* 200, suffix), with the parsed list or, after a failed parse, the empty
\* one.
SaveTrainsJsonOf(s) ==
    /\ rq_pc[s] = "json"
    /\ \E ok \in BOOLEAN :
          written' = IF ok THEN Opened(written, JsonFilename(wall, 200, SuffixOf(kind[s])), s)
                     ELSE written
    /\ rq_pc' = [rq_pc EXCEPT ![s] = "done"]
    /\ UNCHANGED <<wall, elapsed, kind>>
    /\ UNCHANGED beyond_archive

\* The searches have been started; a direct search saves the page first, a
\* flow goes straight to parse_and_save_trains_json.
ArchiveInit ==
    /\ wall \in StartTimes
    /\ elapsed = 0
    /\ kind \in [Searches -> Kinds]
    /\ rq_pc = [s \in Searches |-> IF kind[s] = "trains" THEN "save" ELSE "html"]
    /\ written = {}
    /\ ParserIdle
    /\ StationIdle
    /\ SessionIdle
    /\ SearchIdle
    /\ FlowIdle
    /\ SaveIdle
    /\ PickerIdle
    /\ EndpointIdle
    /\ CallsIdle

ArchiveNext ==
    \/ ClockTick
    \/ \E s \in Searches : SavePage(s) \/ SaveResponseOf(s) \/ SaveTrainsJsonOf(s)

ArchiveSpec == ArchiveInit /\ [][ArchiveNext]_vars

(***************************************************************************)
(* Properties of the shared archive.                                       *)
(***************************************************************************)

\* C30: no file is written by two different searches.
NoArchiveCollision ==
    \A w1 \in written, w2 \in written : w1.name = w2.name => w1.by = w2.by

(***************************************************************************)
(* The endpoint GET /trains: get_trains of main.py, lines 60-119.  The     *)
(* framework binds the query parameters as lines 62-66 declare them and    *)
(* answers 422 without calling get_trains when one cannot be bound.        *)
(***************************************************************************)

\* Whether s is a non-empty run of decimal digits.
AllDigits(s) == Len(s) > 0 /\ \A k \in 1..Len(s) : IsDigit(Char(s, k))

\* The conversion of a query text to int that `adults: int` asks for: <<>>
\* if the text is not an integer, else <<the integer>>.
ParseInt(text) ==
    IF AllDigits(text) THEN <<DigitsToNat(text)>>
    ELSE IF Len(text) > 1 /\ Char(text, 1) = "-" /\ AllDigits(Drop(text, 2))
         THEN <<0 - DigitsToNat(Drop(text, 2))>>
         ELSE <<>>

\* Query(...): the parameter is required.
Required(attr) == attr # NoAttr

\* A variant of AdultsOf without the bounds ge and le.
AdultsUnbounded(attr) == IF attr = NoAttr THEN <<1>> ELSE ParseInt(attr[1])

\* Line 66, adults: int = Query(1, ge=1, le=8): <<>> if the parameter
\* cannot be bound, else <<its value>>, 1 when it is absent.
AdultsOf(attr) ==
    IF attr = NoAttr THEN <<1>>
    ELSE LET v == ParseInt(attr[1])
         IN  IF v # <<>> /\ v[1] >= 1 /\ v[1] <= 8 THEN v ELSE <<>>

\* The query strings requests are made with.
Queries ==
    [origin : {NoAttr, Attr(""), Attr("OURENSE")},
     destination : {NoAttr, Attr("MADRID")},
     date_out : {NoAttr, Attr("2025-10-14"), Attr("x")},
     date_return : {NoAttr, Attr("2025-10-20")},
     adults : {NoAttr, Attr("0"), Attr("1"), Attr("8"), Attr("9"), Attr("10"),
               Attr("-1"), Attr("x")}]

\* Lines 60-67: the framework binds the parameters; on a failure it answers
\* 422 and get_trains is not called.
BindQuery ==
    /\ ep_pc = "validate"
    /\ IF /\ Required(query.origin)
          /\ Required(query.destination)
          /\ Required(query.date_out)
          /\ AdultsOf(query.adults) # <<>>
       THEN /\ adults' = AdultsOf(query.adults)[1]
            /\ ep_pc' = "search"
            /\ http_status' = http_status
       ELSE /\ adults' = adults
            /\ ep_pc' = "done"
            /\ http_status' = 422
    /\ UNCHANGED <<query, invoked>>
    /\ UNCHANGED beyond_endpoint

\* Lines 68-80: log the request and await search_trains; an exception is
\* logged and raised again (lines 116-119), which the server answers with
\* 500.
InvokeSearch ==
    /\ ep_pc = "search"
    /\ invoked' = invoked + 1
    /\ \E ok \in BOOLEAN :
          IF ok THEN ep_pc' = "respond" /\ http_status' = http_status
          ELSE ep_pc' = "done" /\ http_status' = 500
    /\ UNCHANGED <<query, adults>>
    /\ UNCHANGED beyond_endpoint

\* Lines 82-115: map the trains, build the payload and answer; a failure
\* is raised again as above.
AnswerTrains ==
    /\ ep_pc = "respond"
    /\ \E ok \in BOOLEAN : http_status' = IF ok THEN 200 ELSE 500
    /\ ep_pc' = "done"
    /\ UNCHANGED <<query, adults, invoked>>
    /\ UNCHANGED beyond_endpoint

EndpointInit ==
    /\ query \in Queries
    /\ ep_pc = "validate"
    /\ adults = 0
    /\ invoked = 0
    /\ http_status = 0
    /\ ParserIdle
    /\ StationIdle
    /\ SessionIdle
    /\ SearchIdle
    /\ FlowIdle
    /\ SaveIdle
    /\ PickerIdle
    /\ ArchiveIdle
    /\ CallsIdle

EndpointNext == BindQuery \/ InvokeSearch \/ AnswerTrains

EndpointSpec == EndpointInit /\ [][EndpointNext]_vars

(***************************************************************************)
(* Properties of the endpoint GET /trains.                                 *)
(***************************************************************************)

\* The request has origin, destination and date_out, and adults, if given,
\* is one of the integers 1 to 8.
PassesValidation ==
    /\ query.origin # NoAttr
    /\ query.destination # NoAttr
    /\ query.date_out # NoAttr
    /\ \/ query.adults = NoAttr
       \/ query.adults[1] \in {"1", "2", "3", "4", "5", "6", "7", "8"}

\* C21: search_trains is invoked only for requests that pass the
\* validation, and a request that does not pass is answered with 422
\* without search_trains having been invoked.
SearchOnlyAfterValidation ==
    /\ invoked > 0 => PassesValidation
    /\ (ep_pc = "done" /\ ~PassesValidation) => (http_status = 422 /\ invoked = 0)

\* A request with everything required and adults = 9 was rejected with 422
\* and no search.
RejectedForAdults ==
    /\ ep_pc = "done"
    /\ query.origin # NoAttr /\ query.destination # NoAttr /\ query.date_out # NoAttr
    /\ query.adults = Attr("9")
    /\ http_status = 422
    /\ invoked = 0

(***************************************************************************)
(* Concurrent calls of parse_train_list_html (parser.py, lines 15-186).    *)
(* A call may be pre-empted between any two passes of its row loop.        *)
(***************************************************************************)

\* How many calls are under way at once.
MaxCalls == 2

Calls == 1..MaxCalls

\* A variant of ListOf in which every call builds on one list.
ListShared(c) == 1

\* Line 26, trains: List[TrainModel] = []: the list call c builds on is a
\* new object of its own.
ListOf(c) == c

\* The documents the calls are given.
CallDocs ==
    {BrokenDoc,
     [parseable |-> TRUE, elements |-> <<>>],
     [parseable |-> TRUE, elements |-> <<BaseRow, RowTwo>>],
     [parseable |-> TRUE, elements |-> <<RowTwo, BaseRow>>],
     [parseable |-> TRUE, elements |-> <<[BaseRow EXCEPT !.precios = <<Attr(",")>>], RowTwo>>]}

\* Lines 28-33 in call c, as ParseDocument.
ParseDocumentOf(c) ==
    /\ call_pc[c] = "start"
    /\ IF call_html[c].parseable
       THEN /\ call_rows' = [call_rows EXCEPT ![c] = FindTrainRows(call_html[c].elements)]
            /\ call_pc' = [call_pc EXCEPT ![c] = "rows"]
            /\ call_ret' = call_ret
       ELSE /\ call_rows' = call_rows
            /\ call_pc' = [call_pc EXCEPT ![c] = "done"]
            /\ call_ret' = [call_ret EXCEPT ![c] = <<lists[ListOf(c)]>>]
    /\ emitted' = emitted + 1
    /\ UNCHANGED <<call_html, call_i, lists>>
    /\ UNCHANGED beyond_calls

\* Lines 35-181 in call c, as ExtractRow.
ExtractRowOf(c) ==
    /\ call_pc[c] = "rows"
    /\ call_i[c] < Len(call_rows[c])
    /\ LET row == call_rows[c][call_i[c] + 1]
           price_from == PriceFromOf(row)
           extracted == FaresOf(row)
       IN  IF price_from = <<>>
           THEN /\ lists' = lists
                /\ emitted' = emitted + 1
           ELSE /\ lists' = [lists EXCEPT ![ListOf(c)] =
                                AppendTrain(@, TrainOf(row, call_i[c], price_from[1],
                                                       extracted.fares))]
                /\ emitted' = emitted + Len(extracted.log)
    /\ call_i' = [call_i EXCEPT ![c] = @ + 1]
    /\ UNCHANGED <<call_html, call_pc, call_rows, call_ret>>
    /\ UNCHANGED beyond_calls

\* Line 186 in call c, as Return.
ReturnOf(c) ==
    /\ call_pc[c] = "rows"
    /\ call_i[c] = Len(call_rows[c])
    /\ call_pc' = [call_pc EXCEPT ![c] = "done"]
    /\ call_ret' = [call_ret EXCEPT ![c] = <<lists[ListOf(c)]>>]
    /\ UNCHANGED <<call_html, call_rows, call_i, lists, emitted>>
    /\ UNCHANGED beyond_calls

CallsInit ==
    /\ call_html \in [Calls -> CallDocs]
    /\ call_pc = [c \in Calls |-> "start"]
    /\ call_rows = [c \in Calls |-> <<>>]
    /\ call_i = [c \in Calls |-> 0]
    /\ lists = [c \in Calls |-> <<>>]
    /\ call_ret = [c \in Calls |-> <<>>]
    /\ emitted = 0
    /\ ParserIdle
    /\ StationIdle
    /\ SessionIdle
    /\ SearchIdle
    /\ FlowIdle
    /\ SaveIdle
    /\ PickerIdle
    /\ ArchiveIdle
    /\ EndpointIdle

CallsNext == \E c \in Calls : ParseDocumentOf(c) \/ ExtractRowOf(c) \/ ReturnOf(c)

CallsSpec == CallsInit /\ [][CallsNext]_vars

(***************************************************************************)
(* Properties of concurrent parse calls.                                   *)
(***************************************************************************)

\* C22: two calls on the same input return equal lists, however the calls
\* were interleaved; and the list a call returned stays as it was returned,
\* whatever the other calls do afterwards.
ParseDeterministic ==
    /\ \A c \in Calls, d \in Calls :
          (call_ret[c] # <<>> /\ call_ret[d] # <<>> /\ call_html[c] = call_html[d])
              => call_ret[c] = call_ret[d]
    /\ \A c \in Calls : call_ret[c] # <<>> => lists[ListOf(c)] = call_ret[c][1]

\* Two calls on the same two-row document have both returned, two trains
\* each.
SameInputBothReturned ==
    /\ call_html[1] = call_html[2]
    /\ call_ret[1] # <<>> /\ call_ret[2] # <<>>
    /\ Len(call_ret[1][1]) = 2
    /\ Len(call_ret[2][1]) = 2

====
